---- MODULE Spec2Model ----
(***************************************************************************)
(* A model of the stack virtual machine: program cursor, operand stack,    *)
(* locals, frames, the interpreter's frame-stack loop and the debugger     *)
(* state machine that drives it.                                           *)
(*                                                                         *)
(* All memory is modelled at byte granularity (TLC integers are 32 bit, so *)
(* a 4-byte slot is four bytes, never one number).  A byte offset p of a   *)
(* Rust slice is element p + 1 of the TLA+ sequence that models it.        *)
(***************************************************************************)
EXTENDS Integers, Sequences, FiniteSets, TLC

VARIABLES
    image,          \* the code view: entry header ++ data ++ text (Vec<u8>)
    output,         \* Debugger::output, the Output the image comes from
    overflowChecks, \* build profile: TRUE = arithmetic overflow panics
    driver,         \* who owns the interpreter: "debugger" or "runner"
    interp,         \* Interpreter { pc, frames }
    state,          \* Debugger::state
    breakpoints,    \* Debugger::breakpoints
    lines,          \* Debugger::lines (position -> disassembly line)
    crashed,        \* the host process died of a Rust panic
    last            \* the last command and what it returned

vars == <<image, output, overflowChecks, driver, interp, state, breakpoints,
          lines, crashed, last>>

----------------------------------------------------------------------------
(* Bounds of the model                                                     *)

\* Fuel of the loops of Frame::run / Interpreter::run / run_until: a command
\* is only issued when its loop ends within this many instructions.
MaxSteps == 60

\* The debugger session sets at most this many breakpoints at a time.
MaxBreakpoints == 2

----------------------------------------------------------------------------
(* Program constants                                                       *)

STACK_SIZE == 512
SLOT_SIZE == 4
LOCALS_SIZE == 512
HEADER_SIZE == 8

\* Bytecode discriminants (#[repr(u8)], declaration order)
OpAdd == 0
OpAddB == 1
OpAddD == 2
OpAlloc == 3
OpCmp == 4
OpCmpD == 5
OpDataPtr == 6
OpDiv == 7
OpDivD == 8
OpDup == 9
OpDupD == 10
OpGet == 11
OpGetB == 12
OpGetD == 13
OpJmp == 14
OpJmpEq == 15
OpJmpGt == 16
OpJmpLt == 17
OpJmpNe == 18
OpLoad == 19
OpLoadB == 20
OpLoadD == 21
OpMul == 22
OpMulD == 23
OpPop == 25
OpPopB == 26
OpPopD == 27
OpPush == 28
OpPushB == 29
OpPushD == 30
OpStore == 32
OpStoreB == 33
OpStoreD == 34
OpSub == 35
OpSubB == 36
OpSubD == 37
OpCall == 40
OpPanic == 41
OpRet == 42
OpRetW == 43
OpRetD == 44

\* Variants that Frame::step matches and the Bytecode enum at hand does not
\* declare: numbered after RetD, in the order of Frame::step
OpALoad == 45
OpALoadB == 46
OpALoadD == 47
OpAStore == 48
OpAStoreB == 49
OpAStoreD == 50
OpFree == 51
OpJmpGe == 52
OpJmpLe == 53

----------------------------------------------------------------------------
(* Little-endian bytes                                                     *)

Min(a, b) == IF a < b THEN a ELSE b
Max(a, b) == IF a > b THEN a ELSE b

\* Saturated stand-in for a u64 that does not fit a model integer.
Huge == 2147483647

RECURSIVE to_le_bytes(_, _)
\* n.to_le_bytes() for a k-byte integer n (two's complement when n < 0)
to_le_bytes(n, k) ==
    IF k = 0 THEN <<>> ELSE <<n % 256>> \o to_le_bytes(n \div 256, k - 1)

\* u64::from_le_bytes, saturated at Huge
from_le_u64(b) ==
    IF \E i \in 1..Len(b) : (i > 4 /\ b[i] # 0) \/ (i = 4 /\ b[i] >= 128)
    THEN Huge
    ELSE LET B(i) == IF i <= Len(b) THEN b[i] ELSE 0
         IN  B(1) + 256 * B(2) + 65536 * B(3) + 16777216 * B(4)

\* i32::from_le_bytes
from_le_i32(b) ==
    b[1] + 256 * b[2] + 65536 * b[3]
      + 16777216 * (IF b[4] >= 128 THEN b[4] - 256 ELSE b[4])

Zeros(n) == [i \in 1..n |-> 0]

\* bytes [from, from + n) of a buffer
Slice(buf, from, n) == SubSeq(buf, from + 1, from + n)

RECURSIVE CopyInto(_, _, _)
\* buf[from .. from + Len(src)].copy_from_slice(src)
CopyInto(buf, from, src) ==
    IF src = <<>> THEN buf
    ELSE CopyInto([buf EXCEPT ![from + 1] = src[1]], from + 1, Tail(src))

----------------------------------------------------------------------------
(* Program cursor (program.rs)                                             *)

\* Program::next::<N>() at position pos: Cursor::read copies what is left,
\* advances by that much, and the read fails when it is short.
next(pos, N) ==
    LET n == IF pos >= Len(image) THEN 0 ELSE Min(N, Len(image) - pos)
    IN  [ok    |-> n = N,
         pos   |-> pos + n,
         bytes |-> IF n = N THEN Slice(image, pos, N) ELSE <<>>]

----------------------------------------------------------------------------
(* Operand stack (stack.rs)                                                *)

\* a value narrower than a slot taking no slot
Slots_unpadded(T) == T \div SLOT_SIZE

\* T::SIZE.max(4) / 4: the slots an element of T bytes occupies
Slots(T) == Max(T, 4) \div SLOT_SIZE

\* OperandStack::default()
NewOperandStack == [stack |-> Zeros(STACK_SIZE), idx |-> 0]

\* OperandStack::as_slice()
as_slice(os) == Slice(os.stack, 0, os.idx * SLOT_SIZE)

\* OperandStack::clear()
clear(os) == [os EXCEPT !.idx = 0]

\* push leaving what the slot held above a value narrower than the slot
push_unzeroed(os, v) ==
    IF os.idx * SLOT_SIZE + Max(Len(v), 4) > STACK_SIZE
    THEN [abort |-> TRUE, os |-> os]
    ELSE [abort |-> FALSE,
          os |-> [stack |-> CopyInto(os.stack, os.idx * SLOT_SIZE, v),
                  idx |-> os.idx + Slots(Len(v))]]

\* OperandStack::push::<T>(v), v the T little-endian bytes of the value.
\* A slice range past the buffer is a Rust panic (abort).
push(os, v) ==
    LET T == Len(v)
        offset == os.idx * SLOT_SIZE
        zeroed == IF T < 4 THEN CopyInto(os.stack, offset, Zeros(SLOT_SIZE))
                  ELSE os.stack
    IN  IF (T < 4 /\ offset + SLOT_SIZE > STACK_SIZE) \/ offset + T > STACK_SIZE
        THEN [abort |-> TRUE, os |-> os]
        ELSE [abort |-> FALSE,
              os |-> [stack |-> CopyInto(zeroed, offset, v),
                      idx |-> os.idx + Slots(T)]]

\* pop stopping at the bottom of the stack in place of underflowing
pop_saturating(os, T) ==
    [abort |-> FALSE,
     os |-> [os EXCEPT !.idx = Max(0, os.idx - Slots(T))],
     val |-> Slice(os.stack, Max(0, os.idx - Slots(T)) * SLOT_SIZE, T)]

\* OperandStack::pop::<T>(): idx underflow is an arithmetic-overflow panic
\* in a checked build and an out-of-range slice panic in an unchecked one.
pop(os, T) ==
    IF os.idx < Slots(T)
    THEN [abort |-> TRUE, os |-> os, val |-> Zeros(T)]
    ELSE LET idx == os.idx - Slots(T)
         IN  [abort |-> FALSE,
              os |-> [os EXCEPT !.idx = idx],
              val |-> Slice(os.stack, idx * SLOT_SIZE, T)]

\* OperandStack::peek::<T>()
peek(os, T) ==
    IF os.idx < T \div 4
    THEN [some |-> FALSE, abort |-> FALSE, val |-> Zeros(T)]
    ELSE IF os.idx < Slots(T)
    THEN [some |-> FALSE, abort |-> TRUE, val |-> Zeros(T)]
    ELSE [some |-> TRUE, abort |-> FALSE,
          val |-> Slice(os.stack, (os.idx - Slots(T)) * SLOT_SIZE, T)]

RECURSIVE AddCarry(_, _, _)
\* little-endian a + b + c, truncated to Len(a) bytes
AddCarry(a, b, c) ==
    IF a = <<>> THEN <<>>
    ELSE LET s == a[1] + b[1] + c
         IN  <<s % 256>> \o AddCarry(Tail(a), Tail(b), s \div 256)

Negative(a) == a[Len(a)] >= 128
Complement(a) == [i \in 1..Len(a) |-> 255 - a[i]]

\* a + b wraps iff the operands agree in sign and the sum does not
WrappingAdd(a, b) == AddCarry(a, b, 0)
AddOverflows(a, b) ==
    Negative(a) = Negative(b) /\ Negative(WrappingAdd(a, b)) # Negative(a)

\* a - b = a + ~b + 1
WrappingSub(a, b) == AddCarry(a, Complement(b), 1)
SubOverflows(a, b) ==
    Negative(a) # Negative(b) /\ Negative(WrappingSub(a, b)) # Negative(a)

RECURSIVE ScaleCarry(_, _, _)
\* little-endian b * m + c for a byte m, truncated to Len(b) bytes
ScaleCarry(b, m, c) ==
    IF b = <<>> THEN <<>>
    ELSE <<(b[1] * m + c) % 256>>
            \o ScaleCarry(Tail(b), m, (b[1] * m + c) \div 256)

RECURSIVE MulTrunc(_, _)
\* the low Len(a) bytes of a * b (Len(a) = Len(b))
MulTrunc(a, b) ==
    IF a = <<>> THEN <<>>
    ELSE AddCarry(ScaleCarry(b, a[1], 0),
                  <<0>> \o MulTrunc(Tail(a), SubSeq(b, 1, Len(b) - 1)), 0)

\* a sign-extended to n bytes
SignExtend(a, n) ==
    [i \in 1..n |-> IF i <= Len(a) THEN a[i]
                    ELSE IF Negative(a) THEN 255 ELSE 0]

\* a * b wraps iff the exact product is not the sign extension of its low half
WrappingMul(a, b) == MulTrunc(a, b)
MulOverflows(a, b) ==
    MulTrunc(SignExtend(a, 2 * Len(a)), SignExtend(b, 2 * Len(a)))
        # SignExtend(MulTrunc(a, b), 2 * Len(a))

IsZero(a) == \A i \in 1..Len(a) : a[i] = 0
IsMin(a) == a[Len(a)] = 128 /\ \A i \in 1..(Len(a) - 1) : a[i] = 0
IsMinusOne(a) == \A i \in 1..Len(a) : a[i] = 255

\* two's complement negation
Negate(a) == AddCarry(Complement(a), Zeros(Len(a)), 1)

\* |a| as an unsigned number of Len(a) bytes
Magnitude(a) == IF Negative(a) THEN Negate(a) ELSE a

RECURSIVE ULess(_, _)
\* a < b for unsigned little-endian a, b of one length
ULess(a, b) ==
    IF a = <<>> THEN FALSE
    ELSE IF a[Len(a)] # b[Len(b)] THEN a[Len(a)] < b[Len(b)]
    ELSE ULess(SubSeq(a, 1, Len(a) - 1), SubSeq(b, 1, Len(b) - 1))

\* bit i (0 = least significant) of the little-endian a
Bit(a, i) == (a[(i \div 8) + 1] \div (2 ^ (i % 8))) % 2

\* one step of the binary long division: bit x of the dividend is shifted
\* into the remainder rem, from which b is subtracted when it fits
DivStep(x, rem, b) ==
    IF ULess(AddCarry(rem, rem, x), b)
    THEN [bit |-> 0, rem |-> AddCarry(rem, rem, x)]
    ELSE [bit |-> 1,
          rem |-> AddCarry(AddCarry(rem, rem, x), Complement(b), 1)]

RECURSIVE DigitDiv(_, _, _, _, _)
DigitOne(s) == [q |-> s.bit, rem |-> s.rem]

DigitJoin(n, hi, lo) ==
    [q |-> hi.q * (2 ^ (n - n \div 2)) + lo.q, rem |-> lo.rem]

DigitLow(a, i, n, hi, b) ==
    DigitJoin(n, hi, DigitDiv(a, i - n \div 2, n - n \div 2, hi.rem, b))

\* the long division over the n bits of a from bit i downwards, the upper
\* half of them first: the quotient digit they give and the remainder left
DigitDiv(a, i, n, rem, b) ==
    IF n = 1 THEN DigitOne(DivStep(Bit(a, i), rem, b))
    ELSE DigitLow(a, i, n, DigitDiv(a, i, n \div 2, rem, b), b)

RECURSIVE UDivBytes(_, _, _, _, _)
UDivOne(d) == [bytes |-> <<d.q>>, rem |-> d.rem]

UDivJoin(hi, lo) == [bytes |-> hi.bytes \o lo.bytes, rem |-> lo.rem]

UDivLow(a, j, n, hi, b) ==
    UDivJoin(hi, UDivBytes(a, j - n \div 2, n - n \div 2, hi.rem, b))

\* the n quotient bytes of a / b from byte j downwards, the most significant
\* first, rem the remainder of the bytes above (one byte longer than a),
\* and the remainder left
UDivBytes(a, j, n, rem, b) ==
    IF n = 1 THEN UDivOne(DigitDiv(a, 8 * j - 1, 8, rem, b))
    ELSE UDivLow(a, j, n, UDivBytes(a, j, n \div 2, rem, b), b)

\* the unsigned quotient a / b, b # 0
UDivLittle(q) == [k \in 1..Len(q) |-> q[Len(q) + 1 - k]]

UDiv(a, b) ==
    UDivLittle(UDivBytes(a, Len(a), Len(a), Zeros(Len(a) + 1), b \o <<0>>).bytes)

\* a / b truncated toward zero, b # 0 and not MIN / -1
TruncatingDiv(a, b) ==
    IF Negative(a) # Negative(b)
    THEN Negate(UDiv(Magnitude(a), Magnitude(b)))
    ELSE UDiv(Magnitude(a), Magnitude(b))

\* a / b panics in every build: division by zero and MIN / -1
DivPanics(a, b) == IsZero(b) \/ (IsMin(a) /\ IsMinusOne(b))

\* a.cmp(&b) as i32 for two's-complement a, b: Less = -1, Equal = 0, Greater = 1
Ordering(a, b) ==
    IF a = b THEN 0
    ELSE IF Negative(a) # Negative(b) THEN (IF Negative(a) THEN -1 ELSE 1)
    ELSE LET d == CHOOSE i \in 1..Len(a) :
                    a[i] # b[i] /\ \A j \in (i + 1)..Len(a) : a[j] = b[j]
         IN  IF a[d] < b[d] THEN -1 ELSE 1

CmpBytes(a, b) == to_le_bytes(Ordering(a, b), 4)

\* the value of the binary operation op ("add", "sub", "mul", "div", "cmp")
\* on a and b
BinaryValue(op, a, b) ==
    CASE op = "add" -> WrappingAdd(a, b)
      [] op = "sub" -> WrappingSub(a, b)
      [] op = "mul" -> WrappingMul(a, b)
      [] op = "div" -> TruncatingDiv(a, b)
      [] op = "cmp" -> CmpBytes(a, b)

\* whether a + b / a - b / a * b overflows; a.cmp(&b) never does, a / b
\* panics rather than wraps
BinaryOverflows(op, a, b) ==
    CASE op = "add" -> AddOverflows(a, b)
      [] op = "sub" -> SubOverflows(a, b)
      [] op = "mul" -> MulOverflows(a, b)
      [] op = "div" -> FALSE
      [] op = "cmp" -> FALSE

\* a binary operation taking the first value popped for its left operand
BinaryPush_swapped(os, pb, pa, op) ==
    IF pb.abort \/ pa.abort THEN [abort |-> TRUE, os |-> os]
    ELSE IF (op = "div" /\ DivPanics(pb.val, pa.val))
            \/ (overflowChecks /\ BinaryOverflows(op, pb.val, pa.val))
    THEN [abort |-> TRUE, os |-> pa.os]
    ELSE push(pa.os, BinaryValue(op, pb.val, pa.val))

\* the push that ends a binary operation whose operands pb, pa were popped
BinaryPush(os, pb, pa, op) ==
    IF pb.abort \/ pa.abort THEN [abort |-> TRUE, os |-> os]
    ELSE IF (op = "div" /\ DivPanics(pa.val, pb.val))
            \/ (overflowChecks /\ BinaryOverflows(op, pa.val, pb.val))
    THEN [abort |-> TRUE, os |-> pa.os]
    ELSE push(pa.os, BinaryValue(op, pa.val, pb.val))

BinaryPop(os, T, pb, op) == BinaryPush(os, pb, pop(pb.os, T), op)

\* the shape shared by add / sub / mul / div / cmp: pop b, pop a, push op(a, b)
Binary(os, T, op) == BinaryPop(os, T, pop(os, T), op)

\* add computing a - b
add_as_sub(os, T) == Binary(os, T, "sub")

\* OperandStack::add::<T>()
add(os, T) == Binary(os, T, "add")

\* OperandStack::sub::<T>()
sub(os, T) == Binary(os, T, "sub")

\* OperandStack::mul::<T>()
mul(os, T) == Binary(os, T, "mul")

\* OperandStack::div::<T>()
div(os, T) == Binary(os, T, "div")

\* cmp pushing the difference a - b in place of its sign
cmp_as_sub(os, T) == Binary(os, T, "sub")

\* OperandStack::cmp::<T>()
cmp(os, T) == Binary(os, T, "cmp")

\* OperandStack::dup::<T>()
dup(os, T) ==
    IF os.idx < Slots(T) THEN [abort |-> TRUE, os |-> os]
    ELSE push(os, Slice(os.stack, (os.idx - Slots(T)) * SLOT_SIZE, T))

----------------------------------------------------------------------------
(* Locals (locals.rs)                                                      *)

\* Locals::default()
NewLocals == Zeros(LOCALS_SIZE)

\* Locals::read::<T>(i): the slot!(T, i) range must lie inside the buffer
locals_read(locals, i, T) ==
    IF i >= LOCALS_SIZE \/ i * SLOT_SIZE + T > LOCALS_SIZE
    THEN [abort |-> TRUE, val |-> Zeros(T)]
    ELSE [abort |-> FALSE, val |-> Slice(locals, i * SLOT_SIZE, T)]

\* Locals::write::<T>(i, v)
locals_write(locals, i, v) ==
    IF i >= LOCALS_SIZE \/ i * SLOT_SIZE + Len(v) > LOCALS_SIZE
    THEN [abort |-> TRUE, locals |-> locals]
    ELSE [abort |-> FALSE, locals |-> CopyInto(locals, i * SLOT_SIZE, v)]

\* Locals::copy_from_slice(slice)
copy_from_slice(locals, slice) == CopyInto(locals, 0, slice)

----------------------------------------------------------------------------
(* Heap (heap.rs)                                                          *)

\* Heap::default(): allocations a Vec of [free, mem], free a Vec of indices
\* into it (0-based, as in the code)
NewHeap == [allocations |-> <<>>, free |-> <<>>]

\* The address of an empty boxed slice (a dangling, aligned pointer) and the
\* addresses the allocator hands out: distinct for distinct allocations, here
\* HEAP_BASE + id * HEAP_STRIDE.
DANGLING == 1
HEAP_BASE == 4096
HEAP_STRIDE == 64

\* alloc.mem.as_ptr() of the allocation at index id
as_ptr(id, mem) == IF mem = <<>> THEN DANGLING ELSE HEAP_BASE + id * HEAP_STRIDE

\* Allocation::new(size)
NewAllocation(size) == [free |-> FALSE, mem |-> Zeros(size)]

\* the positions i (1-based) of the free list whose allocation has room for
\* size bytes
Fits(h, size) ==
    {i \in 1..Len(h.free) :
        /\ h.free[i] < Len(h.allocations)
        /\ Len(h.allocations[h.free[i] + 1].mem) >= size}

\* the free list without its position i
RemoveAt(q, i) == SubSeq(q, 1, i - 1) \o SubSeq(q, i + 1, Len(q))

\* the least element of a non-empty set of numbers
Least(S) == CHOOSE i \in S : \A j \in S : i <= j

\* Heap::alloc reusing an allocation without taking its entry off the free
\* list
alloc_found_kept(h, i) ==
    [heap |-> [allocations |->
                  [h.allocations EXCEPT ![h.free[i] + 1].free = FALSE],
               free |-> h.free],
     ptr |-> as_ptr(h.free[i], h.allocations[h.free[i] + 1].mem)]

\* Heap::alloc found position i of the free list
alloc_found(h, i) ==
    [heap |-> [allocations |->
                  [h.allocations EXCEPT ![h.free[i] + 1].free = FALSE],
               free |-> RemoveAt(h.free, i)],
     ptr |-> as_ptr(h.free[i], h.allocations[h.free[i] + 1].mem)]

\* Heap::alloc(size)
heap_alloc(h, size) ==
    IF Fits(h, size) # {} THEN alloc_found(h, Least(Fits(h, size)))
    ELSE [heap |-> [h EXCEPT !.allocations = Append(@, NewAllocation(size))],
          ptr |-> as_ptr(Len(h.allocations), Zeros(size))]

\* the indices (0-based) of the allocations whose mem.as_ptr() is ptr
Named(h, ptr) ==
    {id \in 0..(Len(h.allocations) - 1) :
        as_ptr(id, h.allocations[id + 1].mem) = ptr}

\* Heap::free(ptr): todo!() (a Rust panic) when no allocation has the pointer
heap_free(h, ptr) ==
    IF Named(h, ptr) = {} THEN [abort |-> TRUE, heap |-> h]
    ELSE [abort |-> FALSE,
          heap |-> [allocations |->
                       [h.allocations EXCEPT ![Least(Named(h, ptr)) + 1].free = TRUE],
                    free |-> Append(h.free, Least(Named(h, ptr)))]]

\* Heap::read(ptr, offset, dst) with dst of n bytes: false for an unknown
\* pointer, a Rust panic when [offset, offset + n) leaves the allocation
heap_read(h, ptr, offset, n) ==
    IF Named(h, ptr) = {}
    THEN [ok |-> FALSE, abort |-> FALSE, val |-> Zeros(n)]
    ELSE IF offset > Len(h.allocations[Least(Named(h, ptr)) + 1].mem)
            \/ n > Len(h.allocations[Least(Named(h, ptr)) + 1].mem) - offset
    THEN [ok |-> FALSE, abort |-> TRUE, val |-> Zeros(n)]
    ELSE [ok |-> TRUE, abort |-> FALSE,
          val |-> Slice(h.allocations[Least(Named(h, ptr)) + 1].mem, offset, n)]

\* Heap::write reporting success without copying src
heap_write_dropped(h, ptr, offset, src) ==
    IF Named(h, ptr) = {}
    THEN [ok |-> FALSE, abort |-> FALSE, heap |-> h]
    ELSE [ok |-> TRUE, abort |-> FALSE, heap |-> h]

\* Heap::write(ptr, offset, src)
heap_write(h, ptr, offset, src) ==
    IF Named(h, ptr) = {}
    THEN [ok |-> FALSE, abort |-> FALSE, heap |-> h]
    ELSE IF offset > Len(h.allocations[Least(Named(h, ptr)) + 1].mem)
            \/ Len(src) > Len(h.allocations[Least(Named(h, ptr)) + 1].mem) - offset
    THEN [ok |-> FALSE, abort |-> TRUE, heap |-> h]
    ELSE [ok |-> TRUE, abort |-> FALSE,
          heap |-> [h EXCEPT !.allocations[Least(Named(h, ptr)) + 1].mem =
                                 CopyInto(@, offset, src)]]

----------------------------------------------------------------------------
(* Frame (frame.rs)                                                        *)

\* Frame::new
NewFrame(locals, opstack, heap, entry, ret) ==
    [opstack |-> opstack, locals |-> locals, heap |-> heap, entry |-> entry,
     ret |-> ret]

\* What one Frame::step yields.  kind is "none" (Ok(None)), "call", "ret",
\* "retw", "retd", "panic" (Ok(Some(FrameResult))), "err" (Err) or "abort"
\* (a Rust panic); pos is the position FrameResult carries, callee the frame
\* of FrameResult::Call.
StepResult(f, pc, kind, pos, callee) ==
    [frame |-> f, pc |-> pc, kind |-> kind, pos |-> pos, callee |-> callee]

\* an instruction that only works on the operand stack
OnStack(f, pc, r) ==
    IF r.abort THEN StepResult(f, pc, "abort", 0, f)
    ELSE StepResult([f EXCEPT !.opstack = r.os], pc, "none", 0, f)

\* Frame::push::<T>, val the operand read by pc.next::<T>()
frame_push(f, val) ==
    IF ~val.ok THEN StepResult(f, val.pos, "err", 0, f)
    ELSE OnStack(f, val.pos, push(f.opstack, val.bytes))

frame_load_read(f, i, val) ==
    IF val.abort THEN StepResult(f, i.pos, "abort", 0, f)
    ELSE OnStack(f, i.pos, push(f.opstack, val.val))

\* The address the host gave the buffer of the image, counter.get_ref():
\* where programs take pointers into the image, `lines` holds it.
ImageAddress == lines

\* Program::getptr(offset): the address of byte offset of the image; a
\* slice starting past the end of the image is a Rust panic
getptr(offset) ==
    IF offset > Len(image) THEN [abort |-> TRUE, ptr |-> 0]
    ELSE [abort |-> FALSE, ptr |-> ImageAddress + offset]

\* Program::get::<N>(offset): the N bytes of the image at index offset; a
\* range leaving the image is a Rust panic
program_get(offset, N) ==
    IF offset > Len(image) \/ N > Len(image) - offset
    THEN [abort |-> TRUE, val |-> Zeros(N)]
    ELSE [abort |-> FALSE, val |-> Slice(image, offset, N)]

frame_dataptr_push(f, offset, ptr) ==
    IF ptr.abort THEN StepResult(f, offset.pos, "abort", 0, f)
    ELSE OnStack(f, offset.pos, push(f.opstack, to_le_bytes(ptr.ptr, 8)))

\* Frame::dataptr, offset the operand read by pc.next::<u64>()
frame_dataptr(f, offset) ==
    IF ~offset.ok THEN StepResult(f, offset.pos, "err", 0, f)
    ELSE frame_dataptr_push(f, offset, getptr(from_le_u64(offset.bytes)))

frame_get_value(f, p, ptr, value) ==
    IF value.abort THEN StepResult(f, p, "abort", 0, f)
    ELSE OnStack(f, p, push(ptr.os, value.val))

\* ptr + offset of Frame::get, for operands whose sum fits a model integer
\* (a saturated operand indexes past every image)
frame_get_ptr(f, p, T, offset, ptr) ==
    IF ptr.abort THEN StepResult(f, p, "abort", 0, f)
    ELSE frame_get_value(f, p, ptr,
             program_get(IF from_le_u64(ptr.val) = Huge
                            \/ from_le_u64(offset.val) = Huge
                            \/ from_le_u64(ptr.val) > Huge - from_le_u64(offset.val)
                         THEN Huge
                         ELSE from_le_u64(ptr.val) + from_le_u64(offset.val),
                         T))

frame_get_offset(f, p, T, offset) ==
    IF offset.abort THEN StepResult(f, p, "abort", 0, f)
    ELSE frame_get_ptr(f, p, T, offset, pop(offset.os, 8))

\* Frame::get::<T>
frame_get(f, p, T) == frame_get_offset(f, p, T, pop(f.opstack, 8))

\* Frame::load::<T>, i the operand read by pc.next::<u64>()
frame_load(f, i, T) ==
    IF ~i.ok THEN StepResult(f, i.pos, "err", 0, f)
    ELSE frame_load_read(f, i, locals_read(f.locals, from_le_u64(i.bytes), T))

frame_store_write(f, i, val, w) ==
    IF val.abort \/ w.abort THEN StepResult(f, i.pos, "abort", 0, f)
    ELSE StepResult([f EXCEPT !.opstack = val.os, !.locals = w.locals],
                    i.pos, "none", 0, f)

frame_store_pop(f, i, val) ==
    frame_store_write(f, i, val,
                      locals_write(f.locals, from_le_u64(i.bytes), val.val))

\* Frame::store::<T>, i the operand read by pc.next::<u64>()
frame_store(f, i, T) ==
    IF ~i.ok THEN StepResult(f, i.pos, "err", 0, f)
    ELSE frame_store_pop(f, i, pop(f.opstack, T))

frame_jmp_pop(f, pos, have, conditions) ==
    IF have.abort THEN StepResult(f, pos.pos, "abort", 0, f)
    ELSE StepResult([f EXCEPT !.opstack = have.os],
                    IF from_le_i32(have.val) \in conditions
                    THEN from_le_u64(pos.bytes) ELSE pos.pos,
                    "none", 0, f)

\* Frame::jmp, pos the operand read by pc.next::<u64>(); conditions is the
\* set of Ordering values that branch, the empty set for the unconditional
\* jmp
frame_jmp(f, pos, conditions) ==
    IF ~pos.ok THEN StepResult(f, pos.pos, "err", 0, f)
    ELSE IF conditions = {}
    THEN StepResult(f, from_le_u64(pos.bytes), "none", 0, f)
    ELSE frame_jmp_pop(f, pos, pop(f.opstack, 4), conditions)

\* Frame::alloc once the size is popped: a size no allocation can have is a
\* Rust panic (capacity overflow)
frame_alloc_size(f, p, size) ==
    IF size.abort \/ from_le_u64(size.val) >= Huge
    THEN StepResult(f, p, "abort", 0, f)
    ELSE OnStack([f EXCEPT !.heap = heap_alloc(f.heap, from_le_u64(size.val)).heap],
                 p,
                 push(size.os,
                      to_le_bytes(heap_alloc(f.heap, from_le_u64(size.val)).ptr, 8)))

\* Frame::alloc
frame_alloc(f, p) == frame_alloc_size(f, p, pop(f.opstack, 8))

frame_free_heap(f, p, ptr, freed) ==
    IF freed.abort THEN StepResult(f, p, "abort", 0, f)
    ELSE StepResult([f EXCEPT !.opstack = ptr.os, !.heap = freed.heap],
                    p, "none", 0, f)

frame_free_ptr(f, p, ptr) ==
    IF ptr.abort THEN StepResult(f, p, "abort", 0, f)
    ELSE frame_free_heap(f, p, ptr, heap_free(f.heap, from_le_u64(ptr.val)))

\* Frame::free
frame_free(f, p) == frame_free_ptr(f, p, pop(f.opstack, 8))

\* Frame::astore once data, offset and ptr are popped and the write is done
frame_astore_written(f, p, ptr, w) ==
    IF w.abort THEN StepResult(f, p, "abort", 0, f)
    ELSE IF ~w.ok
    THEN StepResult([f EXCEPT !.opstack = ptr.os], p, "err", 0, f)
    ELSE StepResult([f EXCEPT !.opstack = ptr.os, !.heap = w.heap],
                    p, "none", 0, f)

frame_astore_ptr(f, p, data, offset, ptr) ==
    IF ptr.abort THEN StepResult(f, p, "abort", 0, f)
    ELSE frame_astore_written(f, p, ptr,
             heap_write(f.heap, from_le_u64(ptr.val),
                        from_le_u64(offset.val), data.val))

frame_astore_offset(f, p, data, offset) ==
    IF offset.abort THEN StepResult(f, p, "abort", 0, f)
    ELSE frame_astore_ptr(f, p, data, offset, pop(offset.os, 8))

frame_astore_data(f, p, data) ==
    IF data.abort THEN StepResult(f, p, "abort", 0, f)
    ELSE frame_astore_offset(f, p, data, pop(data.os, 8))

\* Frame::astore::<T>
frame_astore(f, p, T) == frame_astore_data(f, p, pop(f.opstack, T))

\* Frame::aload pushing dst whatever Heap::read returned
frame_aload_read_unchecked(f, p, ptr, r) ==
    IF r.abort THEN StepResult(f, p, "abort", 0, f)
    ELSE OnStack(f, p, push(ptr.os, r.val))

\* Frame::aload once offset and ptr are popped and the read is done
frame_aload_read(f, p, ptr, r) ==
    IF r.abort THEN StepResult(f, p, "abort", 0, f)
    ELSE IF ~r.ok
    THEN StepResult([f EXCEPT !.opstack = ptr.os], p, "err", 0, f)
    ELSE OnStack(f, p, push(ptr.os, r.val))

frame_aload_ptr(f, p, T, offset, ptr) ==
    IF ptr.abort THEN StepResult(f, p, "abort", 0, f)
    ELSE frame_aload_read(f, p, ptr,
             heap_read(f.heap, from_le_u64(ptr.val),
                       from_le_u64(offset.val), T))

frame_aload_offset(f, p, T, offset) ==
    IF offset.abort THEN StepResult(f, p, "abort", 0, f)
    ELSE frame_aload_ptr(f, p, T, offset, pop(offset.os, 8))

\* Frame::aload::<T>
frame_aload(f, p, T) == frame_aload_offset(f, p, T, pop(f.opstack, 8))

\* the callee's locals: the caller's operand stack copied to the front of
\* zeroed locals
call_locals(f) == copy_from_slice(NewLocals, as_slice(f.opstack))

\* Frame::call without opstack.clear()
call_not_cleared(f) == f

\* the caller after call: operand stack cleared
call_cleared(f) == [f EXCEPT !.opstack = clear(f.opstack)]

frame_call_enter(cleared, locals, entry) ==
    IF ~entry.ok THEN StepResult(cleared, entry.pos, "err", 0, cleared)
    ELSE StepResult(cleared, entry.pos, "call", 0,
             NewFrame(locals, NewOperandStack, cleared.heap,
                      from_le_u64(entry.bytes), entry.pos))

\* Frame::call at cursor position pc (just after the opcode)
frame_call(f, pc) ==
    frame_call_enter(call_cleared(f), call_locals(f), next(pc, 8))

\* the operand width of a width-suffixed opcode
Width(op) ==
    IF op \in {OpAddB, OpLoadB, OpPopB, OpPushB, OpStoreB, OpSubB, OpALoadB,
               OpAStoreB, OpGetB}
    THEN 1
    ELSE IF op \in {OpAddD, OpDupD, OpLoadD, OpPopD, OpPushD, OpStoreD,
                    OpSubD, OpCmpD, OpDivD, OpMulD, OpALoadD, OpAStoreD,
                    OpGetD}
    THEN 8
    ELSE 4

\* jmp.lt and jmp.gt taking each other's Ordering
Conditions_swapped(op) ==
    IF op = OpJmpEq THEN {0}
    ELSE IF op = OpJmpGt THEN {-1}
    ELSE IF op = OpJmpLt THEN {1}
    ELSE IF op = OpJmpNe THEN {1, -1}
    ELSE IF op = OpJmpGe THEN {1, 0}
    ELSE IF op = OpJmpLe THEN {-1, 0}
    ELSE {}

\* the Ordering values on which a jump opcode branches
Conditions(op) ==
    IF op = OpJmpEq THEN {0}
    ELSE IF op = OpJmpGt THEN {1}
    ELSE IF op = OpJmpLt THEN {-1}
    ELSE IF op = OpJmpNe THEN {1, -1}
    ELSE IF op = OpJmpGe THEN {1, 0}
    ELSE IF op = OpJmpLe THEN {-1, 0}
    ELSE {}

\* the assert of Program::next_op: op is a discriminant of Bytecode
IsBytecode(op) == op <= OpRetD \/ (op >= OpALoad /\ op <= OpJmpLe)

\* the match of Frame::step on the opcode op fetched at `position`, the
\* cursor now at p
dispatch(f, position, p, op) ==
    IF ~IsBytecode(op) THEN StepResult(f, p, "abort", 0, f)
    ELSE CASE op \in {OpALoad, OpALoadB, OpALoadD} ->
                frame_aload(f, p, Width(op))
           [] op \in {OpAStore, OpAStoreB, OpAStoreD} ->
                frame_astore(f, p, Width(op))
           [] op \in {OpAdd, OpAddB, OpAddD} ->
                OnStack(f, p, add(f.opstack, Width(op)))
           [] op = OpAlloc -> frame_alloc(f, p)
           [] op \in {OpCmp, OpCmpD} -> OnStack(f, p, cmp(f.opstack, Width(op)))
           [] op = OpDataPtr -> frame_dataptr(f, next(p, 8))
           [] op \in {OpDiv, OpDivD} -> OnStack(f, p, div(f.opstack, Width(op)))
           [] op \in {OpDup, OpDupD} -> OnStack(f, p, dup(f.opstack, Width(op)))
           [] op = OpFree -> frame_free(f, p)
           [] op \in {OpGet, OpGetB, OpGetD} -> frame_get(f, p, Width(op))
           [] op \in {OpJmp, OpJmpEq, OpJmpGe, OpJmpGt, OpJmpLe, OpJmpLt,
                      OpJmpNe} ->
                frame_jmp(f, next(p, 8), Conditions(op))
           [] op \in {OpMul, OpMulD} -> OnStack(f, p, mul(f.opstack, Width(op)))
           [] op \in {OpLoad, OpLoadB, OpLoadD} ->
                frame_load(f, next(p, 8), Width(op))
           [] op \in {OpPop, OpPopB, OpPopD} ->
                OnStack(f, p, pop(f.opstack, Width(op)))
           [] op \in {OpPush, OpPushB, OpPushD} ->
                frame_push(f, next(p, Width(op)))
           [] op \in {OpStore, OpStoreB, OpStoreD} ->
                frame_store(f, next(p, 8), Width(op))
           [] op \in {OpSub, OpSubB, OpSubD} ->
                OnStack(f, p, sub(f.opstack, Width(op)))
           [] op = OpCall -> frame_call(f, p)
           [] op = OpPanic -> StepResult(f, p, "panic", position, f)
           [] op = OpRet -> StepResult(f, p, "ret", position, f)
           [] op = OpRetW -> StepResult(f, p, "retw", position, f)
           [] op = OpRetD -> StepResult(f, p, "retd", position, f)
           \* ptr, read, write, system: in no program of the model
           [] OTHER -> StepResult(f, p, "abort", 0, f)

frame_step_fetched(f, position, fetch) ==
    IF ~fetch.ok THEN StepResult(f, fetch.pos, "err", 0, f)
    ELSE dispatch(f, position, fetch.pos, fetch.bytes[1])

\* Frame::step: one fetch-decode-dispatch iteration at cursor position pc
frame_step(f, pc) == frame_step_fetched(f, pc, next(pc, 1))

\* the opcode at the cursor, -1 at the end of the image
OpcodeAt(pc) == IF pc < Len(image) THEN image[pc + 1] ELSE -1

\* the opcodes one Frame::step at pc fetches: 1, or 0 at the end of the image
Fetched(pc) == IF pc < Len(image) THEN 1 ELSE 0

RECURSIVE frame_steps(_, _, _)
frame_steps_more(n, r) == [r EXCEPT !.n = n + r.n]

frame_steps_rest(r, k) ==
    IF r.kind # "none" THEN r
    ELSE frame_steps_more(r.n, frame_steps(r.frame, r.pc, k))

\* at most k >= 1 iterations of the loop of Frame::run from cursor pc, ending
\* at the first that gives a FrameResult, an error or a panic (kind "none"
\* when all k gave Ok(None)); field n counts the opcodes fetched.  The
\* iterations are split in halves, which keeps the evaluation shallow.
frame_steps(f, pc, k) ==
    IF k = 1 THEN frame_step(f, pc) @@ [n |-> Fetched(pc)]
    ELSE frame_steps_rest(frame_steps(f, pc, k \div 2), k - k \div 2)

frame_run_stepped(r, n) ==
    [r EXCEPT !.n = n + r.n,
              !.kind = IF r.kind = "none" THEN "fuel" ELSE r.kind]

\* Frame::run: step until a FrameResult, an error or a panic; n counts the
\* opcodes fetched, fuel bounds the loop (kind "fuel" when it runs out).
frame_run(f, pc, n, fuel) == frame_run_stepped(frame_steps(f, pc, fuel + 1), n)

----------------------------------------------------------------------------
(* Interpreter (interpreter.rs)                                            *)

\* the entry header of the image
Entry == from_le_u64(Slice(image, 0, HEADER_SIZE))

\* the main frame of Interpreter::new
MainFrame(entry) == NewFrame(NewLocals, NewOperandStack, NewHeap, entry, 0)

\* Interpreter::new over the code view img
interpreter_new(img) ==
    [pc |-> from_le_u64(Slice(img, 0, HEADER_SIZE)),
     frames |-> <<MainFrame(from_le_u64(Slice(img, 0, HEADER_SIZE)))>>]

Front(q) == SubSeq(q, 1, Len(q) - 1)
Top(q) == q[Len(q)]

\* What a run of the interpreter yields: status is "more" (the loop goes
\* on), "ok" (Ok), "finished" (main returned), "err" (Err), "abort" (Rust
\* panic) or "fuel"; n counts the opcodes fetched.
RunResult(ip, status, n) == [ip |-> ip, status |-> status, n |-> n]

\* frames[len - 1].opstack.push(current.opstack.pop()): val is the pop,
\* pushed the push
ret_transfer(rest, ret, val, pushed, n) ==
    IF val.abort \/ pushed.abort
    THEN RunResult([pc |-> ret, frames |-> rest], "abort", n)
    ELSE RunResult([pc |-> ret,
                    frames |-> [rest EXCEPT ![Len(rest)].opstack = pushed.os]],
                   "more", n)

\* ret.w / ret.d popping the callee's value without pushing it
ret_value_dropped(rest, ret, val, n) ==
    ret_transfer(rest, ret, val, [abort |-> FALSE, os |-> Top(rest).opstack], n)

ret_value(rest, ret, val, n) ==
    ret_transfer(rest, ret, val, push(Top(rest).opstack, val.val), n)

\* The frames all hold one heap (Arc<Heap>): what the running frame did to
\* it is what every frame under it sees.
Shared(rest, heap) == [i \in 1..Len(rest) |-> [rest[i] EXCEPT !.heap = heap]]

\* Interpreter::run taking ret.w / ret.d of main for a transfer: the value is
\* popped from main's operand stack although no caller receives it
run_matched_main_pops(rest, r) ==
    CASE r.kind = "fuel" ->
            RunResult([pc |-> r.pc, frames |-> rest \o <<r.frame>>], "fuel", r.n)
      [] r.kind = "abort" ->
            RunResult([pc |-> r.pc, frames |-> rest], "abort", r.n)
      [] r.kind \in {"err", "panic"} ->
            RunResult([pc |-> r.pc, frames |-> rest], "err", r.n)
      [] r.kind = "call" ->
            RunResult([pc |-> r.callee.entry,
                       frames |-> rest \o <<r.frame, r.callee>>], "more", r.n)
      [] r.kind = "ret" /\ rest = <<>> ->
            RunResult([pc |-> r.pc, frames |-> rest \o <<r.frame>>], "ok", r.n)
      [] r.kind \in {"retw", "retd"} /\ rest = <<>> ->
            RunResult([pc |-> r.pc,
                       frames |-> <<[r.frame EXCEPT !.opstack =
                                        pop(r.frame.opstack,
                                            IF r.kind = "retw" THEN 4
                                            ELSE 8).os]>>],
                      "ok", r.n)
      [] r.kind = "ret" /\ rest # <<>> ->
            RunResult([pc |-> r.frame.ret, frames |-> rest], "more", r.n)
      [] r.kind \in {"retw", "retd"} /\ rest # <<>> ->
            ret_value(rest, r.frame.ret,
                      pop(r.frame.opstack, IF r.kind = "retw" THEN 4 ELSE 8),
                      r.n)

\* The match of Interpreter::run on what current.run gave (r), rest being
\* the frames under the popped current.  An Err of current.run and
\* FrameResult::Panic both leave through `?` with current popped.
run_matched(rest, r) ==
    CASE r.kind = "fuel" ->
            RunResult([pc |-> r.pc, frames |-> rest \o <<r.frame>>], "fuel", r.n)
      [] r.kind = "abort" ->
            RunResult([pc |-> r.pc, frames |-> rest], "abort", r.n)
      [] r.kind \in {"err", "panic"} ->
            RunResult([pc |-> r.pc, frames |-> rest], "err", r.n)
      [] r.kind = "call" ->
            RunResult([pc |-> r.callee.entry,
                       frames |-> rest \o <<r.frame, r.callee>>], "more", r.n)
      [] r.kind \in {"ret", "retw", "retd"} /\ rest = <<>> ->
            RunResult([pc |-> r.pc, frames |-> rest \o <<r.frame>>], "ok", r.n)
      [] r.kind = "ret" /\ rest # <<>> ->
            RunResult([pc |-> r.frame.ret, frames |-> rest], "more", r.n)
      [] r.kind \in {"retw", "retd"} /\ rest # <<>> ->
            ret_value(rest, r.frame.ret,
                      pop(r.frame.opstack, IF r.kind = "retw" THEN 4 ELSE 8),
                      r.n)

run_match(rest, r) == run_matched(Shared(rest, r.frame.heap), r)

\* One iteration of the `while let Some(current) = frames.pop()` loop of
\* Interpreter::run: the popped frame runs to its FrameResult, which the
\* match handles.
run_iteration(ip, fuel) ==
    run_match(Front(ip.frames), frame_run(Top(ip.frames), ip.pc, 0, fuel))

RECURSIVE interpreter_run(_, _, _)
run_loop(r, n, fuel) ==
    IF r.status # "more" THEN RunResult(r.ip, r.status, n + r.n)
    ELSE IF fuel <= r.n THEN RunResult(r.ip, "fuel", n + r.n)
    ELSE interpreter_run(r.ip, n + r.n, fuel - r.n)

\* Interpreter::run: iterate until the frame stack is empty, main returns,
\* or an error leaves the loop
interpreter_run(ip, n, fuel) ==
    IF ip.frames = <<>> THEN RunResult(ip, "ok", n)
    ELSE run_loop(run_iteration(ip, fuel), n, fuel)

\* Interpreter::position()
position(ip) == ip.pc

\* Interpreter::reset(): clear the frame stack, rewind to entry, push a
\* fresh main frame
reset(ip) == [pc |-> Entry, frames |-> <<MainFrame(Entry)>>]

step_transfer(rest, ret, val, pushed, n) ==
    IF val.abort \/ pushed.abort
    THEN RunResult([pc |-> ret, frames |-> rest], "abort", n)
    ELSE RunResult([pc |-> ret,
                    frames |-> [rest EXCEPT ![Len(rest)].opstack = pushed.os]],
                   "ok", n)

\* ret.w / ret.d resuming the caller without the callee's value
step_value_dropped(rest, ret, val, n) ==
    step_transfer(rest, ret, val, [abort |-> FALSE, os |-> Top(rest).opstack], n)

step_value(rest, ret, val, n) ==
    step_transfer(rest, ret, val, push(Top(rest).opstack, val.val), n)

\* the frame-result table applied to what one step of the top frame gave
\* (r), rest being the frames under it
step_matched(rest, r, n) ==
    CASE r.kind = "none" ->
            RunResult([pc |-> r.pc, frames |-> rest \o <<r.frame>>], "ok", n)
      [] r.kind = "abort" ->
            RunResult([pc |-> r.pc, frames |-> rest \o <<r.frame>>], "abort", n)
      [] r.kind = "err" ->
            RunResult([pc |-> r.pc, frames |-> rest \o <<r.frame>>], "err", n)
      [] r.kind = "panic" ->
            RunResult([pc |-> r.pos, frames |-> rest \o <<r.frame>>], "err", n)
      [] r.kind = "call" ->
            RunResult([pc |-> r.callee.entry,
                       frames |-> rest \o <<r.frame, r.callee>>], "ok", n)
      [] r.kind \in {"ret", "retw", "retd"} /\ rest = <<>> ->
            RunResult([pc |-> r.pos, frames |-> rest \o <<r.frame>>],
                      "finished", n)
      [] r.kind = "ret" /\ rest # <<>> ->
            RunResult([pc |-> r.frame.ret, frames |-> rest], "ok", n)
      [] r.kind \in {"retw", "retd"} /\ rest # <<>> ->
            step_value(rest, r.frame.ret,
                       pop(r.frame.opstack, IF r.kind = "retw" THEN 4 ELSE 8),
                       n)

step_match(rest, r, n) == step_matched(Shared(rest, r.frame.heap), r, n)

\* Interpreter::step(): one step of the topmost frame, then the frame-result
\* table.  status "ok" is Some(pc), "finished" is None.
interpreter_step(ip) ==
    IF ip.frames = <<>> THEN RunResult(ip, "err", 0)
    ELSE step_match(Front(ip.frames), frame_step(Top(ip.frames), ip.pc),
                    Fetched(ip.pc))

RECURSIVE until_steps(_, _, _)
\* one step of run_until: status "more" when the loop goes on
until_one(r, bps) ==
    IF r.status = "ok" /\ position(r.ip) \notin bps
    THEN [r EXCEPT !.status = "more"]
    ELSE r

until_more(n, r) == [r EXCEPT !.n = n + r.n]

until_rest(r, bps, k) ==
    IF r.status # "more" THEN r
    ELSE until_more(r.n, until_steps(r.ip, bps, k))

\* at most k >= 1 single steps, ending at the first after which the
\* position is a breakpoint or that does not give Some(pc); split in halves
\* as frame_steps is
until_steps(ip, bps, k) ==
    IF k = 1 THEN until_one(interpreter_step(ip), bps)
    ELSE until_rest(until_steps(ip, bps, k \div 2), bps, k - k \div 2)

run_until_stepped(r, n) ==
    RunResult(r.ip, IF r.status = "more" THEN "fuel" ELSE r.status, n + r.n)

\* Interpreter::run_until(breakpoints): single-step until the position
\* after a step is a breakpoint or main returns
run_until(ip, bps, n, fuel) ==
    run_until_stepped(until_steps(ip, bps, fuel + 1), n)

----------------------------------------------------------------------------
(* Disassembly line map (output.rs)                                        *)

\* the operand bytes fmt_text reads after each opcode
OperandSize(op) ==
    IF op = OpPush THEN 4
    ELSE IF op = OpPushB THEN 1
    ELSE IF op \in {OpPushD, OpLoad, OpLoadB, OpLoadD, OpStore, OpStoreB,
                    OpStoreD, OpJmp, OpJmpEq, OpJmpGt, OpJmpLt, OpJmpNe,
                    OpCall}
    THEN 8
    ELSE 0

RECURSIVE fmt_text_loop(_, _, _, _, _)
\* the `while let Ok(op) = pc.next_op()` loop of Output::fmt_text over the
\* text of code view img: pos is the position of the next opcode, line the
\* next line number, map the position -> line map so far
fmt_text_loop(img, labels, pos, line, map) ==
    IF pos >= Len(img) THEN map
    ELSE LET l == IF pos \in labels THEN line + 1 ELSE line
         IN  fmt_text_loop(img, labels, pos + 1 + OperandSize(img[pos + 1]),
                           l + 1, (pos :> l) @@ map)

\* Output::fmt_text: the map from instruction position to disassembly line
fmt_text(img, dlen, labels) ==
    LET pos == HEADER_SIZE + dlen
    IN  fmt_text_loop(img, labels, pos, 0, (pos :> 0))

----------------------------------------------------------------------------
(* Programs                                                                *)

I0(op) == <<op>>
I1(op, v) == <<op>> \o to_le_bytes(v, 1)
I4(op, v) == <<op>> \o to_le_bytes(v, 4)
I8(op, v) == <<op>> \o to_le_bytes(v, 8)

\* An Output: entry, data, text, the labelled positions, and the positions
\* a debugger session of the model tries as breakpoints.
Output(entry, data, text, labels, probes) ==
    [entry |-> entry, data |-> data, text |-> text, labels |-> labels,
     probes |-> probes]

\* impl From<&Output> for Vec<u8>: entry header ++ data ++ text
CodeView(out) == to_le_bytes(out.entry, HEADER_SIZE) \o out.data \o out.text

\* .data input .word 9 / main: push 7; panic; push 99; ret
ProgPanic ==
    Output(12, <<9, 0, 0, 0>>,
           I4(OpPush, 7) \o I0(OpPanic) \o I4(OpPush, 99) \o I0(OpRet),
           {8, 12}, {12, 13, 17})

\* main: push 22; push 33; call add; store 0; ret
\* add:  load 0; load 1; add; ret.w
ProgCall ==
    Output(8, <<>>,
           I4(OpPush, 22) \o I4(OpPush, 33) \o I8(OpCall, 37)
             \o I8(OpStore, 0) \o I0(OpRet)
             \o I8(OpLoad, 0) \o I8(OpLoad, 1) \o I0(OpAdd) \o I0(OpRetW),
           {8, 37}, {19, 27, 37})

\* main: push 0; store 0
\* loop: load 0; push 1; add; dup; store 0; push 2; cmp; jmp.lt loop; ret
ProgLoop ==
    Output(8, <<>>,
           I4(OpPush, 0) \o I8(OpStore, 0)
             \o I8(OpLoad, 0) \o I4(OpPush, 1) \o I0(OpAdd) \o I0(OpDup)
             \o I8(OpStore, 0) \o I4(OpPush, 2) \o I0(OpCmp)
             \o I8(OpJmpLt, 22) \o I0(OpRet),
           {8, 22}, {9, 22, 62})

\* main: push.d 9; call f; ret.d
\* f:    load.d 0; ret.d
ProgRetD ==
    Output(8, <<>>,
           I8(OpPushD, 9) \o I8(OpCall, 27) \o I0(OpRetD)
             \o I8(OpLoadD, 0) \o I0(OpRetD),
           {8, 27}, {26, 27})

\* main: push 7; call f; ret
\* f:    push 5; panic; ret
ProgCalleePanic ==
    Output(8, <<>>,
           I4(OpPush, 7) \o I8(OpCall, 23) \o I0(OpRet)
             \o I4(OpPush, 5) \o I0(OpPanic) \o I0(OpRet),
           {8, 23}, {28})

\* main: push 1          (the text ends without a return)
ProgEof ==
    Output(8, <<>>, I4(OpPush, 1), {8}, {13})

\* main: call f; ret
\* f:    ret.w            (nothing to return)
ProgRetWEmpty ==
    Output(8, <<>>, I8(OpCall, 18) \o I0(OpRet) \o I0(OpRetW), {8, 18}, {18})

\* main: push 3; call f; ret
\* f:    call g; ret
\* g:    ret
ProgNested ==
    Output(8, <<>>,
           I4(OpPush, 3) \o I8(OpCall, 23) \o I0(OpRet)
             \o I8(OpCall, 33) \o I0(OpRet) \o I0(OpRet),
           {8, 23, 33}, {33})

\* main: push 1
\* loop: push 1; add; push 10; cmp; jmp.lt loop; ret
ProgScenario1 ==
    Output(8, <<>>,
           I4(OpPush, 1)
             \o I4(OpPush, 1) \o I0(OpAdd) \o I4(OpPush, 10) \o I0(OpCmp)
             \o I8(OpJmpLt, 13) \o I0(OpRet),
           {8, 13}, {18})

\* main: push 1
\* loop: push 1; add; dup; push 10; cmp; jmp.lt loop; ret
ProgScenario1Dup ==
    Output(8, <<>>,
           I4(OpPush, 1)
             \o I4(OpPush, 1) \o I0(OpAdd) \o I0(OpDup) \o I4(OpPush, 10)
             \o I0(OpCmp) \o I8(OpJmpLt, 13) \o I0(OpRet),
           {8, 13}, {35})

\* main: push 22; push 33; call add; store 0; ret
\* add:  load 0; load 1; add; ret
ProgScenario2 ==
    Output(8, <<>>,
           I4(OpPush, 22) \o I4(OpPush, 33) \o I8(OpCall, 37)
             \o I8(OpStore, 0) \o I0(OpRet)
             \o I8(OpLoad, 0) \o I8(OpLoad, 1) \o I0(OpAdd) \o I0(OpRet),
           {8, 37}, {27})

\* main: call f; ret
\* f:    push 16; alloc; dup.d; push 42; push 0; astore; pop; push 0; aload;
\*       ret.w
ProgScenario5 ==
    Output(8, <<>>,
           I8(OpCall, 18) \o I0(OpRet)
             \o I4(OpPush, 16) \o I0(OpAlloc) \o I0(OpDupD) \o I4(OpPush, 42)
             \o I4(OpPush, 0) \o I0(OpAStore) \o I0(OpPop) \o I4(OpPush, 0)
             \o I0(OpALoad) \o I0(OpRetW),
           {8, 18}, {23})

\* main: call f; ret.w
\* f:    push.d 16; alloc; dup.d; push.d 0; push 42; astore; push.d 0;
\*       aload; ret.w
ProgScenario5Typed ==
    Output(8, <<>>,
           I8(OpCall, 18) \o I0(OpRetW)
             \o I8(OpPushD, 16) \o I0(OpAlloc) \o I0(OpDupD)
             \o I8(OpPushD, 0) \o I4(OpPush, 42) \o I0(OpAStore)
             \o I8(OpPushD, 0) \o I0(OpALoad) \o I0(OpRetW),
           {8, 18}, {54})

\* main: push <two bytes>   (the text ends inside the operand of push)
ProgShortOperand ==
    Output(8, <<>>, <<OpPush, 1, 0>>, {8}, {8})

ProgramSet ==
    {ProgPanic, ProgCall, ProgLoop, ProgRetD, ProgCalleePanic, ProgEof,
     ProgRetWEmpty, ProgNested, ProgScenario1, ProgScenario1Dup,
     ProgScenario2, ProgScenario5, ProgScenario5Typed, ProgShortOperand}

----------------------------------------------------------------------------
(* Debugger (debugger.rs)                                                  *)

\* What the last command returned: ok is Ok/Err of its Result, pos the
\* position of Ok, fault whether an Err came from the interpreter,
\* finished whether it saw main return, n the opcodes it fetched.
Last(cmd, arg, ok, pos, fault, finished, n) ==
    [cmd |-> cmd, arg |-> arg, ok |-> ok, pos |-> pos, fault |-> fault,
     finished |-> finished, n |-> n]

Refused(cmd, arg) == Last(cmd, arg, FALSE, 0, FALSE, FALSE, 0)

\* the part of the debugger no command of the model writes
Fixed == <<image, output, overflowChecks, driver>>

\* Debugger::run without the check of the state
Debugger_run_unguarded ==
    /\ driver = "debugger" /\ ~crashed
    /\ interp' = reset(interp)
    /\ state' = "Running"
    /\ last' = Last("run", 0, state = "Off", position(interp'), FALSE, FALSE, 0)
    /\ UNCHANGED <<Fixed, breakpoints, lines, crashed>>

\* Debugger::run
Debugger_run ==
    /\ driver = "debugger" /\ ~crashed
    /\ IF state = "Running"
       THEN /\ last' = Refused("run", 0)
            /\ UNCHANGED <<interp, state>>
       ELSE /\ interp' = reset(interp)
            /\ state' = "Running"
            /\ last' = Last("run", 0, TRUE, position(interp'), FALSE, FALSE, 0)
    /\ UNCHANGED <<Fixed, breakpoints, lines, crashed>>

\* Debugger::step turning the debugger off on every None or Err
step_returned_off(r) ==
    /\ interp' = r.ip
    /\ crashed' = (r.status = "abort")
    /\ state' = IF r.status # "ok" THEN "Off" ELSE state
    /\ last' = Last("step", 0, r.status = "ok",
                    IF r.status = "ok" THEN position(r.ip) ELSE 0,
                    r.status = "err", r.status = "finished", r.n)

\* the rest of Debugger::step once interpreter.step() gave r
step_returned(r) ==
    /\ interp' = r.ip
    /\ crashed' = (r.status = "abort")
    /\ state' = IF r.status = "finished" THEN "Off" ELSE state
    /\ last' = Last("step", 0, r.status = "ok",
                    IF r.status = "ok" THEN position(r.ip) ELSE 0,
                    r.status = "err", r.status = "finished", r.n)

\* Debugger::step
Debugger_step ==
    /\ driver = "debugger" /\ ~crashed
    /\ IF state = "Off"
       THEN /\ last' = Refused("step", 0)
            /\ UNCHANGED <<interp, state, crashed>>
       ELSE step_returned(interpreter_step(interp))
    /\ UNCHANGED <<Fixed, breakpoints, lines>>

\* the rest of Debugger::continue once the interpreter gave r; finished is
\* the value of the match on the breakpoint found
continue_returned(breakpoint, r, finished) ==
    /\ r.status # "fuel"
    /\ interp' = r.ip
    /\ crashed' = (r.status = "abort")
    /\ state' = IF r.status \in {"ok", "finished"} /\ finished THEN "Off"
                ELSE state
    /\ last' = Last("continue", breakpoint, r.status \in {"ok", "finished"},
                    IF r.status \in {"ok", "finished"} THEN position(r.ip)
                    ELSE 0,
                    r.status = "err",
                    r.status \in {"ok", "finished"} /\ finished, r.n)

\* the match of Debugger::continue on the breakpoint find() gave; -1 stands
\* for None
continue_match(breakpoint) ==
    IF breakpoint = -1
    THEN continue_returned(breakpoint, interpreter_run(interp, 0, MaxSteps),
                           TRUE)
    ELSE continue_returned(breakpoint,
                           run_until(interp, {breakpoint}, 0, MaxSteps),
                           run_until(interp, {breakpoint}, 0,
                                     MaxSteps).status = "finished")

\* what breakpoints.iter().find(|bp| bp >= current_position) can give:
\* HashSet iteration order is unspecified, so any breakpoint at or after the
\* current position
continue_find(current_position) ==
    IF {bp \in breakpoints : bp >= current_position} = {} THEN {-1}
    ELSE {bp \in breakpoints : bp >= current_position}

\* Debugger::continue
Debugger_continue ==
    /\ driver = "debugger" /\ ~crashed
    /\ IF state = "Off"
       THEN /\ last' = Refused("continue", 0)
            /\ UNCHANGED <<interp, state, crashed>>
       ELSE \E breakpoint \in continue_find(position(interp)) :
                continue_match(breakpoint)
    /\ UNCHANGED <<Fixed, breakpoints, lines>>

\* Debugger::set_breakpoint(position)
Debugger_set_breakpoint(p) ==
    /\ driver = "debugger" /\ ~crashed
    /\ IF p \in DOMAIN lines
       THEN /\ Cardinality(breakpoints \cup {p}) <= MaxBreakpoints
            /\ breakpoints' = breakpoints \cup {p}
            /\ last' = Last("break", p, TRUE, 0, FALSE, FALSE, 0)
       ELSE /\ breakpoints' = breakpoints
            /\ last' = Refused("break", p)
    /\ UNCHANGED <<Fixed, interp, state, lines, crashed>>

\* Debugger::delete_breakpoint(position)
Debugger_delete_breakpoint(p) ==
    /\ driver = "debugger" /\ ~crashed
    /\ lines' = [q \in DOMAIN lines \ {p} |-> lines[q]]
    /\ last' = Last("delete", p, TRUE, 0, FALSE, FALSE, 0)
    /\ UNCHANGED <<Fixed, interp, state, breakpoints, crashed>>

\* Debugger::fmt_breakpoints: self.lines[bp] panics on a missing key
Debugger_fmt_breakpoints ==
    /\ driver = "debugger" /\ ~crashed
    /\ crashed' = ~(breakpoints \subseteq DOMAIN lines)
    /\ last' = Last("ls", 0, ~crashed', 0, FALSE, FALSE, 0)
    /\ UNCHANGED <<Fixed, interp, state, breakpoints, lines>>

----------------------------------------------------------------------------
(* Test runner (tests/testcase/mod.rs)                                     *)

\* the rest of TestRunner::run_one once interpreter.run() gave r: the status
\* is taken and frames().last().unwrap() read
run_one_returned(r) ==
    /\ r.status # "fuel"
    /\ interp' = r.ip
    /\ crashed' = (r.status = "abort" \/ r.ip.frames = <<>>)
    /\ last' = Last("run_one", 0, r.status = "ok", position(r.ip),
                    r.status = "err", r.status = "ok", r.n)

\* TestRunner::run_one: run a fresh interpreter
run_one ==
    /\ driver = "runner" /\ ~crashed /\ last.cmd = "new"
    /\ run_one_returned(interpreter_run(interp, 0, MaxSteps))
    /\ UNCHANGED <<Fixed, state, breakpoints, lines>>

----------------------------------------------------------------------------
(* Specification                                                           *)

\* Debugger::new / Interpreter::new over one of the programs
Init ==
    /\ output \in ProgramSet
    /\ image = CodeView(output)
    /\ driver \in {"debugger", "runner"}
    /\ overflowChecks \in (IF driver = "runner" THEN BOOLEAN ELSE {FALSE})
    /\ interp = interpreter_new(image)
    /\ state = "Off"
    /\ breakpoints = {}
    /\ lines = fmt_text(image, Len(output.data), output.labels)
    /\ crashed = FALSE
    /\ last = Last("new", 0, TRUE, 0, FALSE, FALSE, 0)

Next ==
    \/ Debugger_run
    \/ Debugger_step
    \/ Debugger_continue
    \/ \E p \in output.probes : Debugger_set_breakpoint(p)
    \/ \E p \in output.probes : Debugger_delete_breakpoint(p)
    \/ Debugger_fmt_breakpoints
    \/ run_one

Spec == Init /\ [][Next]_vars

----------------------------------------------------------------------------
(* One Frame::step on a prepared frame (as test_stack prepares a stack)     *)

\* the most 4-byte values a prepared operand stack is built from
MaxStackWords == 2

WordValues ==
    {to_le_bytes(v, 4) : v \in {0, -1, 1, 2, -7, 5, 10, Huge, -Huge - 1}}

DWordValues ==
    {to_le_bytes(v, 8) : v \in {0, -1, 2, -7, HEAP_BASE}}
        \cup {Zeros(7) \o <<128>>}

RECURSIVE Pushed(_, _)
\* the operand stack after pushing the values of vs in turn
Pushed(os, vs) ==
    IF vs = <<>> THEN os ELSE Pushed(push(os, vs[1]).os, Tail(vs))

\* the slots of a whole operand stack
Capacity == STACK_SIZE \div SLOT_SIZE

\* Prepared operand stacks: up to MaxStackWords words, two dwords, the
\* operands of an astore (pointer, offset, value of each width; the pointer
\* of the first allocation or the one a second allocation would have), and
\* stacks that are full or nearly so.
UnitStacks ==
    {Pushed(NewOperandStack, s) :
        s \in UNION {[1..n -> WordValues] : n \in 0..MaxStackWords}}
      \cup {Pushed(NewOperandStack, <<a, b>>) : a, b \in DWordValues}
      \cup {Pushed(NewOperandStack,
                   <<to_le_bytes(o[3], 8), to_le_bytes(o[1], 8),
                     to_le_bytes(42, o[2])>>) :
              o \in {0, 12, 16} \X {1, 4, 8}
                       \X {HEAP_BASE, HEAP_BASE + HEAP_STRIDE}}
      \cup {[NewOperandStack EXCEPT !.idx = k] :
              k \in (Capacity - 2)..Capacity}

\* locals some stores have written
UnitLocals == copy_from_slice(NewLocals, [i \in 1..16 |-> i])

\* the heap after one alloc of 16 bytes
UnitHeap == heap_alloc(NewHeap, 16).heap

\* one instruction of each opcode Frame::step executes on the operand
\* stack, the locals, the cursor or the heap
UnitInstructions ==
    <<I4(OpPush, 7), I1(OpPushB, 200), I8(OpPushD, 9),
      I0(OpPop), I0(OpPopB), I0(OpPopD),
      I0(OpAdd), I0(OpAddB), I0(OpAddD),
      I0(OpSub), I0(OpSubB), I0(OpSubD),
      I0(OpMul), I0(OpMulD), I0(OpDiv), I0(OpDivD),
      I0(OpCmp), I0(OpCmpD), I0(OpDup), I0(OpDupD),
      I8(OpLoad, 0), I8(OpLoadB, 1), I8(OpLoadD, 2),
      I8(OpStore, 0), I8(OpStoreB, 1), I8(OpStoreD, 2),
      I8(OpJmp, 8), I8(OpJmpEq, 8), I8(OpJmpNe, 8), I8(OpJmpLt, 8),
      I8(OpJmpGt, 8), I8(OpJmpLe, 8), I8(OpJmpGe, 8),
      I0(OpAlloc), I0(OpFree),
      I0(OpALoad), I0(OpALoadB), I0(OpALoadD),
      I0(OpAStore), I0(OpAStoreB), I0(OpAStoreD)>>

RECURSIVE Concat(_)
Concat(ss) == IF ss = <<>> THEN <<>> ELSE ss[1] \o Concat(Tail(ss))

\* the position of instruction i of UnitInstructions in the image
UnitStart(i) == HEADER_SIZE + Len(Concat(SubSeq(UnitInstructions, 1, i - 1)))

UnitTable ==
    Output(HEADER_SIZE, <<>>, Concat(UnitInstructions), {HEADER_SIZE},
           {UnitStart(i) : i \in 1..Len(UnitInstructions)})

\* the size alloc would pop is one the model's heap can hold, or one no
\* allocation can have (2^63 and more)
AllocModelled(os) ==
    IF os.idx < 2 THEN TRUE
    ELSE \/ from_le_u64(Slice(os.stack, (os.idx - 2) * SLOT_SIZE, 8)) < Huge
         \/ Negative(Slice(os.stack, (os.idx - 2) * SLOT_SIZE, 8))

\* a frame as Frame::new builds it, over a prepared operand stack
UnitInit ==
    /\ output = UnitTable
    /\ image = CodeView(output)
    /\ driver = "frame"
    /\ overflowChecks \in BOOLEAN
    /\ \E os \in UnitStacks :
          interp = [pc |-> output.entry,
                    frames |-> <<NewFrame(UnitLocals, os, UnitHeap,
                                          output.entry, 0)>>]
    /\ state = "Off"
    /\ breakpoints = {}
    /\ lines = <<>>
    /\ crashed = FALSE
    /\ last = Last("new", 0, TRUE, 0, FALSE, FALSE, 0)

\* what Frame::step at p gave: a Rust panic ends the process, anything else
\* leaves the frame and the cursor as the step made them
Unit_stepped(p, r) ==
    /\ interp' = [pc |-> r.pc, frames |-> <<r.frame>>]
    /\ crashed' = (r.kind = "abort")
    /\ last' = Last("unit", p, r.kind = "none", r.pc, r.kind = "err", FALSE,
                    Fetched(p))

\* Frame::step with the cursor at instruction p of the table
Unit_step(p) ==
    /\ driver = "frame" /\ last.cmd = "new"
    /\ OpcodeAt(p) = OpAlloc => AllocModelled(Top(interp.frames).opstack)
    /\ Unit_stepped(p, frame_step(Top(interp.frames), p))
    /\ UNCHANGED <<Fixed, state, breakpoints, lines>>

UnitNext == \E p \in output.probes : Unit_step(p)

UnitSpec == UnitInit /\ [][UnitNext]_vars

----------------------------------------------------------------------------
(* The calls of Heap (heap.rs) on the heap of a fresh interpreter           *)

\* the heap the frames share
TheHeap(ip) == Top(ip.frames).heap

\* the most allocations, and the longest free list, the heap grows to
MaxAllocs == 2
MaxFreeList == 2

\* the sizes asked of Heap::alloc
AllocSizes == {0, 4, 16}

\* the pointers given to Heap::free and Heap::write: the one of empty
\* allocations and those of the first MaxAllocs + 1 allocations, the last
\* of which is never handed out
Pointers == {DANGLING} \cup {HEAP_BASE + id * HEAP_STRIDE : id \in 0..MaxAllocs}

\* the byte Heap::write stores
Written == <<7>>

HeapInit ==
    /\ output = ProgScenario5Typed
    /\ image = CodeView(output)
    /\ driver = "heap"
    /\ overflowChecks = FALSE
    /\ interp = interpreter_new(image)
    /\ state = "Off"
    /\ breakpoints = {}
    /\ lines = <<>>
    /\ crashed = FALSE
    /\ last = Last("new", 0, TRUE, 0, FALSE, FALSE, 0)

Heap_alloc_returned(size, r) ==
    /\ interp' = [interp EXCEPT !.frames = Shared(interp.frames, r.heap)]
    /\ last' = Last("alloc", size, TRUE, r.ptr, FALSE, FALSE, 0)
    /\ UNCHANGED crashed

\* Heap::alloc(size)
Heap_alloc(size) ==
    /\ driver = "heap" /\ ~crashed
    /\ Fits(TheHeap(interp), size) # {}
         \/ Len(TheHeap(interp).allocations) < MaxAllocs
    /\ Heap_alloc_returned(size, heap_alloc(TheHeap(interp), size))
    /\ UNCHANGED <<Fixed, state, breakpoints, lines>>

Heap_free_returned(ptr, r) ==
    /\ interp' = [interp EXCEPT !.frames = Shared(interp.frames, r.heap)]
    /\ crashed' = r.abort
    /\ last' = Last("free", ptr, ~r.abort, 0, FALSE, FALSE, 0)

\* Heap::free(ptr)
Heap_free(ptr) ==
    /\ driver = "heap" /\ ~crashed
    /\ Len(TheHeap(interp).free) < MaxFreeList
    /\ Heap_free_returned(ptr, heap_free(TheHeap(interp), ptr))
    /\ UNCHANGED <<Fixed, state, breakpoints, lines>>

Heap_write_returned(ptr, r) ==
    /\ interp' = [interp EXCEPT !.frames = Shared(interp.frames, r.heap)]
    /\ crashed' = r.abort
    /\ last' = Last("write", ptr, r.ok, 0, FALSE, FALSE, 0)

\* Heap::write(ptr, 0, &[7])
Heap_write(ptr) ==
    /\ driver = "heap" /\ ~crashed
    /\ Heap_write_returned(ptr, heap_write(TheHeap(interp), ptr, 0, Written))
    /\ UNCHANGED <<Fixed, state, breakpoints, lines>>

HeapNext ==
    \/ \E size \in AllocSizes : Heap_alloc(size)
    \/ \E ptr \in Pointers : Heap_free(ptr)
    \/ \E ptr \in Pointers : Heap_write(ptr)

HeapSpec == HeapInit /\ [][HeapNext]_vars

----------------------------------------------------------------------------
(* Output::serialise / Output::deserialise (output.rs)                      *)

\* the most labels of an image of the model
MaxLabels == 2

\* u16::MAX: u16::try_from(len).unwrap() panics above it
U16_MAX == 65535

\* Output::new, the label table a function from offsets to names (a
\* HashMap<u64, String>; a name is the sequence of its UTF-8 bytes)
NewOutput(entry, data, text, labels) ==
    [entry |-> entry, data |-> data, text |-> text, labels |-> labels]

\* the orders labels.into_iter() can yield the keys of a HashMap in
Orders(S) ==
    {q \in [1..Cardinality(S) -> S] :
        \A i, j \in 1..Cardinality(S) : i # j => q[i] # q[j]}

\* offsets.into_iter().for_each(|offset| output.extend(offset.to_le_bytes()))
\* of the keys in the order of the iteration
ser_offsets(order) == Concat([i \in 1..Len(order) |-> to_le_bytes(order[i], 8)])

\* labels.into_iter().for_each(...): each name as [length | bytes], the names
\* in the order of the iteration
ser_labels(labels, order) ==
    Concat([i \in 1..Len(order) |->
               to_le_bytes(Len(labels[order[i]]), 2) \o labels[order[i]]])

\* one of the u16::try_from(..).unwrap() of serialise panics
ser_panics(out) ==
    \/ Len(out.data) > U16_MAX
    \/ Len(out.text) > U16_MAX
    \/ Cardinality(DOMAIN out.labels) > U16_MAX
    \/ \E k \in DOMAIN out.labels : Len(out.labels[k]) > U16_MAX

\* serialise writing the names in the reverse of the order of the offsets
serialise_names_reversed(out, order) ==
    IF ser_panics(out) THEN [abort |-> TRUE, bytes |-> <<>>]
    ELSE [abort |-> FALSE,
          bytes |-> to_le_bytes(out.entry, 8)
                      \o to_le_bytes(Len(out.data), 2) \o out.data
                      \o to_le_bytes(Len(out.text), 2) \o out.text
                      \o to_le_bytes(Len(order), 2) \o ser_offsets(order)
                      \o to_le_bytes(Len(order), 2)
                      \o ser_labels(out.labels,
                                    [i \in 1..Len(order) |->
                                        order[Len(order) + 1 - i]])]

\* Output::serialise, order the order in which the HashMap yields its
\* entries
serialise(out, order) ==
    IF ser_panics(out) THEN [abort |-> TRUE, bytes |-> <<>>]
    ELSE [abort |-> FALSE,
          bytes |-> to_le_bytes(out.entry, 8)
                      \o to_le_bytes(Len(out.data), 2) \o out.data
                      \o to_le_bytes(Len(out.text), 2) \o out.text
                      \o to_le_bytes(Len(order), 2) \o ser_offsets(order)
                      \o to_le_bytes(Len(order), 2)
                      \o ser_labels(out.labels, order)]

\* what a read of the reader gives: Ok(val) and the new position, or Err
Read(ok, val, pos) == [ok |-> ok, val |-> val, pos |-> pos]

\* Bytes::read_u64 on a slice reader at pos
read_u64(buf, pos) ==
    IF Len(buf) - pos < 8 THEN Read(FALSE, 0, Len(buf))
    ELSE Read(TRUE, from_le_u64(Slice(buf, pos, 8)), pos + 8)

\* Bytes::read_u16
read_u16(buf, pos) ==
    IF Len(buf) - pos < 2 THEN Read(FALSE, 0, Len(buf))
    ELSE Read(TRUE, buf[pos + 1] + 256 * buf[pos + 2], pos + 2)

\* Bytes::read_n (read_exact)
read_n(buf, pos, n) ==
    IF Len(buf) - pos < n THEN Read(FALSE, <<>>, pos)
    ELSE Read(TRUE, Slice(buf, pos, n), pos + n)

\* a continuation byte of UTF-8
Cont(b, i) == i <= Len(b) /\ b[i] \in 128..191

RECURSIVE from_utf8(_)
\* String::from_utf8(data).is_ok()
from_utf8(b) ==
    IF b = <<>> THEN TRUE
    ELSE IF b[1] < 128 THEN from_utf8(Tail(b))
    ELSE IF b[1] \in 194..223
    THEN Cont(b, 2) /\ from_utf8(SubSeq(b, 3, Len(b)))
    ELSE IF b[1] \in 224..239
    THEN /\ Cont(b, 2) /\ Cont(b, 3)
         /\ b[1] = 224 => b[2] >= 160
         /\ b[1] = 237 => b[2] <= 159
         /\ from_utf8(SubSeq(b, 4, Len(b)))
    ELSE IF b[1] \in 240..244
    THEN /\ Cont(b, 2) /\ Cont(b, 3) /\ Cont(b, 4)
         /\ b[1] = 240 => b[2] >= 144
         /\ b[1] = 244 => b[2] <= 143
         /\ from_utf8(SubSeq(b, 5, Len(b)))
    ELSE FALSE

\* one more value in front of the values a loop has read
des_push(v, r) == IF r.ok THEN Read(TRUE, <<v>> \o r.val, r.pos) ELSE r

RECURSIVE des_offsets(_, _, _)
des_offsets_next(buf, k, o) ==
    IF ~o.ok THEN Read(FALSE, <<>>, o.pos)
    ELSE des_push(o.val, des_offsets(buf, o.pos, k - 1))

\* for _ in 0..len { offsets.push(r.read_u64()?) }
des_offsets(buf, pos, k) ==
    IF k = 0 THEN Read(TRUE, <<>>, pos)
    ELSE des_offsets_next(buf, k, read_u64(buf, pos))

RECURSIVE des_labels(_, _, _)
des_labels_data(buf, k, d) ==
    IF ~d.ok \/ ~from_utf8(d.val) THEN Read(FALSE, <<>>, d.pos)
    ELSE des_push(d.val, des_labels(buf, d.pos, k - 1))

des_labels_len(buf, k, len) ==
    IF ~len.ok THEN Read(FALSE, <<>>, len.pos)
    ELSE des_labels_data(buf, k, read_n(buf, len.pos, len.val))

\* for _ in 0..len { labels.push(String::from_utf8(r.read_n(r.read_u16()?)?)?) }
des_labels(buf, pos, k) ==
    IF k = 0 THEN Read(TRUE, <<>>, pos)
    ELSE des_labels_len(buf, k, read_u16(buf, pos))

\* std::iter::zip(offsets, labels).collect::<HashMap<u64, String>>(): of two
\* entries with one offset the later stays
Zipped(offsets, labels) ==
    [k \in {offsets[i] : i \in 1..Len(offsets)} |->
        labels[CHOOSE i \in 1..Len(offsets) :
                  /\ offsets[i] = k
                  /\ \A j \in 1..Len(offsets) : offsets[j] = k => j <= i]]

\* what deserialise returns: status is "ok", "err" (Err) or "abort" (the
\* assert! on the two lengths)
Deserialised(status, out) == [status |-> status, out |-> out]

DesErr == Deserialised("err", NewOutput(0, <<>>, <<>>, <<>>))

des_zip(o, offsets, labels) ==
    IF ~labels.ok THEN DesErr
    ELSE IF Len(offsets) # Len(labels.val)
    THEN Deserialised("abort", NewOutput(0, <<>>, <<>>, <<>>))
    ELSE Deserialised("ok", [o EXCEPT !.labels = Zipped(offsets, labels.val)])

des_n_labels(buf, o, offsets, n) ==
    IF ~n.ok THEN DesErr
    ELSE des_zip(o, offsets, des_labels(buf, n.pos, n.val))

des_read_offsets(buf, o, offsets) ==
    IF ~offsets.ok THEN DesErr
    ELSE des_n_labels(buf, o, offsets.val, read_u16(buf, offsets.pos))

des_n_offsets(buf, o, n) ==
    IF ~n.ok THEN DesErr
    ELSE des_read_offsets(buf, o, des_offsets(buf, n.pos, n.val))

des_text(buf, o, text) ==
    IF ~text.ok THEN DesErr
    ELSE des_n_offsets(buf, [o EXCEPT !.text = text.val],
                       read_u16(buf, text.pos))

des_text_len(buf, o, len) ==
    IF ~len.ok THEN DesErr
    ELSE des_text(buf, o, read_n(buf, len.pos, len.val))

des_data(buf, o, data) ==
    IF ~data.ok THEN DesErr
    ELSE des_text_len(buf, [o EXCEPT !.data = data.val],
                      read_u16(buf, data.pos))

des_data_len(buf, o, len) ==
    IF ~len.ok THEN DesErr
    ELSE des_data(buf, o, read_n(buf, len.pos, len.val))

des_entry(buf, entry) ==
    IF ~entry.ok THEN DesErr
    ELSE des_data_len(buf, NewOutput(entry.val, <<>>, <<>>, <<>>),
                      read_u16(buf, entry.pos))

\* Output::deserialise(r) for a reader over the bytes buf
deserialise(buf) == des_entry(buf, read_u64(buf, 0))

\* the names ("main", "f", the empty name, "é") and the offsets of the label
\* tables of the model
LabelNames == {<<109, 97, 105, 110>>, <<102>>, <<>>, <<195, 169>>}
LabelOffsets == {8, 12, 300}

\* the label tables of at most MaxLabels entries
LabelTables ==
    UNION {[S -> LabelNames] :
              S \in {T \in SUBSET LabelOffsets : Cardinality(T) <= MaxLabels}}

\* the images serialised: small ones, and two with a text of the longest
\* length a u16 holds and of one byte more
SerdeImages ==
    {NewOutput(e, d, t, l) :
        e \in {8, 12}, d \in {<<>>, <<9, 0, 0, 0>>},
        t \in {<<>>, I4(OpPush, 7) \o I0(OpRet)}, l \in LabelTables}
      \cup {NewOutput(8, <<>>, Zeros(n), <<>>) : n \in {U16_MAX, U16_MAX + 1}}

SerdeInit ==
    /\ output \in SerdeImages
    /\ image = <<>>
    /\ driver = "serde"
    /\ overflowChecks = FALSE
    /\ interp = NewOutput(0, <<>>, <<>>, <<>>)
    /\ state = "Off"
    /\ breakpoints = {}
    /\ lines = <<>>
    /\ crashed = FALSE
    /\ last = Last("new", 0, TRUE, 0, FALSE, FALSE, 0)

Serde_serialised(r) ==
    /\ image' = r.bytes
    /\ crashed' = r.abort
    /\ last' = Last("serialise", 0, ~r.abort, Len(r.bytes), FALSE, FALSE, 0)

\* output.clone().serialise()
Serde_serialise(order) ==
    /\ driver = "serde" /\ last.cmd = "new"
    /\ Serde_serialised(serialise(output, order))
    /\ UNCHANGED <<output, overflowChecks, driver, interp, state, breakpoints,
                   lines>>

Serde_deserialised(cut, d) ==
    /\ interp' = d.out
    /\ crashed' = (d.status = "abort")
    /\ last' = Last("deserialise", cut, d.status = "ok", 0, d.status = "err",
                    FALSE, 0)

\* Output::deserialise of the serialised bytes, or of all but the last cut
\* of them
Serde_deserialise(cut) ==
    /\ driver = "serde" /\ last.cmd = "serialise" /\ ~crashed
    /\ Serde_deserialised(cut, deserialise(SubSeq(image, 1, Len(image) - cut)))
    /\ UNCHANGED <<Fixed, state, breakpoints, lines>>

SerdeNext ==
    \/ \E order \in Orders(DOMAIN output.labels) : Serde_serialise(order)
    \/ \E cut \in {0, 1} : Serde_deserialise(cut)

SerdeSpec == SerdeInit /\ [][SerdeNext]_vars

----------------------------------------------------------------------------
(* Assembler (assembler.rs)                                                *)

\* the most statements after the .entry header in a source of the model
MaxStatements == 3

\* A Token: t is the variant ("word", "keyword", "number", "char", "string",
\* "dot", "colon", "eof"), s the text of a Word or the name of a Keyword, n
\* the number a Value::Number denotes or the code point of a Value::Char, b
\* the UTF-8 bytes of a Value::String.
Token(t, s, n, b) == [t |-> t, s |-> s, n |-> n, b |-> b]
Word(s) == Token("word", s, 0, <<>>)
Keyword(s) == Token("keyword", s, 0, <<>>)
Number(n) == Token("number", "", n, <<>>)
Char(n) == Token("char", "", n, <<>>)
String(b) == Token("string", "", 0, b)
Dot == Token("dot", "", 0, <<>>)
Colon == Token("colon", "", 0, <<>>)
Eof == Token("eof", "", 0, <<>>)

\* enum Bytecode of interpreter.rs, the one the assembler imports: the
\* discriminant of a variant is its place in the declaration
AsmBytecode ==
    <<"Push", "PushD", "PushB", "Pop", "PopD", "PopB", "Load", "LoadD",
      "LoadB", "Store", "StoreD", "StoreB", "Get", "GetD", "GetB", "Add",
      "AddD", "AddB", "Sub", "SubD", "SubB", "Mul", "MulD", "Div", "DivD",
      "Cmp", "CmpD", "Dup", "DupD", "Jmp", "JmpLt", "JmpEq", "JmpGt",
      "JmpNe", "Call", "Fail", "Ret", "RetW", "RetD">>

\* code as u8
AsU8(code) == (CHOOSE i \in 1..Len(AsmBytecode) : AsmBytecode[i] = code) - 1

\* the match of assemble_instruction: for each mnemonic the variant, the
\* kind of operand ("none", "operand" with the type parsed, "label") and the
\* type's size
Mnemonics ==
    (    "push"    :> <<"Push",   "operand", "i32",   4>>
      @@ "push.d"  :> <<"PushD",  "operand", "i64",   8>>
      @@ "push.b"  :> <<"PushB",  "operand", "i8",    1>>
      @@ "pop"     :> <<"Pop",    "none",    "",      0>>
      @@ "pop.d"   :> <<"PopD",   "none",    "",      0>>
      @@ "pop.b"   :> <<"PopB",   "none",    "",      0>>
      @@ "load"    :> <<"Load",   "operand", "usize", 8>>
      @@ "load.d"  :> <<"LoadD",  "operand", "usize", 8>>
      @@ "load.b"  :> <<"LoadB",  "operand", "usize", 8>>
      @@ "store"   :> <<"Store",  "operand", "usize", 8>>
      @@ "store.d" :> <<"StoreD", "operand", "usize", 8>>
      @@ "store.b" :> <<"StoreB", "operand", "usize", 8>>
      @@ "get"     :> <<"Get",    "operand", "usize", 8>>
      @@ "get.d"   :> <<"GetD",   "operand", "usize", 8>>
      @@ "get.b"   :> <<"GetB",   "operand", "usize", 8>>
      @@ "add"     :> <<"Add",    "none",    "",      0>>
      @@ "add.d"   :> <<"AddD",   "none",    "",      0>>
      @@ "add.b"   :> <<"AddB",   "none",    "",      0>>
      @@ "sub"     :> <<"Sub",    "none",    "",      0>>
      @@ "sub.d"   :> <<"SubD",   "none",    "",      0>>
      @@ "sub.b"   :> <<"SubB",   "none",    "",      0>>
      @@ "mul"     :> <<"Mul",    "none",    "",      0>>
      @@ "mul.d"   :> <<"MulD",   "none",    "",      0>>
      @@ "div"     :> <<"Div",    "none",    "",      0>>
      @@ "div.d"   :> <<"DivD",   "none",    "",      0>>
      @@ "cmp"     :> <<"Cmp",    "operand", "i32",   4>>
      @@ "cmp.d"   :> <<"CmpD",   "operand", "i64",   8>>
      @@ "dup"     :> <<"Dup",    "none",    "",      0>>
      @@ "dup.d"   :> <<"DupD",   "none",    "",      0>>
      @@ "fail"    :> <<"Fail",   "none",    "",      0>>
      @@ "ret"     :> <<"Ret",    "none",    "",      0>>
      @@ "ret.d"   :> <<"",       "todo",    "",      0>>
      @@ "ret.b"   :> <<"",       "todo",    "",      0>>
      @@ "call"    :> <<"Call",   "label",   "",      8>>
      @@ "jmp"     :> <<"Jmp",    "label",   "",      8>>
      @@ "jmp.lt"  :> <<"JmpLt",  "label",   "",      8>>
      @@ "jmp.gt"  :> <<"JmpGt",  "label",   "",      8>>
      @@ "jmp.eq"  :> <<"JmpEq",  "label",   "",      8>>
      @@ "jmp.ne"  :> <<"JmpNe",  "label",   "",      8>> )

\* Assembler::new once the source is tokenised
NewAssembler ==
    [position |-> 0, program |-> <<>>, labels |-> <<>>, unresolved |-> <<>>]

\* HashMap::insert(key, value)
Insert(map, key, value) ==
    [k \in DOMAIN map \cup {key} |-> IF k = key THEN value ELSE map[k]]

\* what a method of the assembler returns: st is "ok", "err" (Err) or
\* "abort" (todo!, unreachable!), a the assembler after it
Asm(st, a) == [st |-> st, a |-> a]

\* self.tokens.get(self.position): a token beyond the last reads as the
\* variant "none" (None)
peek_token(ts, a) ==
    IF a.position < Len(ts) THEN ts[a.position + 1]
    ELSE Token("none", "", 0, <<>>)

\* the assembler after next_token (position is not moved on None)
Taken(ts, a) ==
    IF a.position < Len(ts) THEN [a EXCEPT !.position = @ + 1] ELSE a

\* number.parse::<T>().is_ok() of the decimal string of n
Parses(T, n) ==
    CASE T = "i8" -> n \in -128..127
      [] T = "usize" -> n >= 0
      [] OTHER -> TRUE

\* assemble_label
assemble_label(ts, a) ==
    CASE peek_token(ts, a).t = "word" ->
            Asm("ok", [Taken(ts, a) EXCEPT
                          !.unresolved = Insert(@, Len(a.program),
                                                peek_token(ts, a).s),
                          !.program = @ \o Zeros(8)])
      [] peek_token(ts, a).t = "none" -> Asm("abort", a)
      [] OTHER -> Asm("err", Taken(ts, a))

\* assemble_operator
assemble_operator(a, code) == [a EXCEPT !.program = @ \o <<AsU8(code)>>]

\* assemble_operator_with_operand::<T>, a the assembler after the opcode
assemble_operand(ts, a, T, size) ==
    CASE peek_token(ts, a).t = "number" ->
            IF Parses(T, peek_token(ts, a).n)
            THEN Asm("ok", [Taken(ts, a) EXCEPT
                               !.program = @ \o to_le_bytes(peek_token(ts, a).n,
                                                            size)])
            ELSE Asm("err", Taken(ts, a))
      [] peek_token(ts, a).t = "word" /\ size = 8 -> assemble_label(ts, a)
      [] peek_token(ts, a).t = "none" -> Asm("abort", a)
      [] OTHER -> Asm("err", a)

\* assemble_instruction(word) as the table gives it
assemble_as(ts, a, m) ==
    CASE m[2] = "none" -> Asm("ok", assemble_operator(a, m[1]))
      [] m[2] = "operand" ->
            assemble_operand(ts, assemble_operator(a, m[1]), m[3], m[4])
      [] m[2] = "label" -> assemble_label(ts, assemble_operator(a, m[1]))
      [] m[2] = "todo" -> Asm("abort", a)

\* assemble_instruction
assemble_instruction(ts, a, word) ==
    IF word \in DOMAIN Mnemonics THEN assemble_as(ts, a, Mnemonics[word])
    ELSE Asm("err", a)

\* the size of the type a data keyword names; -1 for a keyword that names
\* none
DataSize(kw) ==
    CASE kw = "byte" -> 1 [] kw = "word" -> 4 [] kw = "dword" -> 8
      [] kw = "string" -> 0 [] OTHER -> -1

\* the value of assemble_data: the bytes of the token v for a type of the
\* given size; matches is whether some arm but the last matched
DataValue(v, size) ==
    CASE v.t = "number" /\ size = 1 ->
            [matches |-> Parses("i8", v.n), bytes |-> to_le_bytes(v.n, 1)]
      [] v.t = "number" /\ size \in {4, 8} ->
            [matches |-> TRUE, bytes |-> to_le_bytes(v.n, size)]
      [] v.t = "char" /\ size = 1 /\ v.n < 128 ->
            [matches |-> TRUE, bytes |-> <<v.n>>]
      [] v.t = "char" /\ size = 4 ->
            [matches |-> TRUE, bytes |-> to_le_bytes(v.n, 4)]
      [] v.t = "string" /\ size = 0 -> [matches |-> TRUE, bytes |-> v.b]
      [] OTHER -> [matches |-> FALSE, bytes |-> <<>>]

\* assemble_data after the type keyword: the value, or zeros without one
assemble_data_value(ts, a, size) ==
    IF peek_token(ts, a).t \in {"number", "char", "string"}
    THEN IF DataValue(peek_token(ts, a), size).matches
         THEN Asm("ok", [Taken(ts, a) EXCEPT
                            !.program = @ \o DataValue(peek_token(ts, a),
                                                       size).bytes])
         ELSE Asm("err", Taken(ts, a))
    ELSE Asm("ok", [a EXCEPT !.program = @ \o Zeros(size)])

\* assemble_data after the name is declared: `.` and the type keyword
assemble_data_type(ts, a) ==
    IF peek_token(ts, a).t # "dot" THEN Asm("err", a)
    ELSE IF peek_token(ts, Taken(ts, a)).t # "keyword"
            \/ DataSize(peek_token(ts, Taken(ts, a)).s) < 0
    THEN Asm("err", Taken(ts, Taken(ts, a)))
    ELSE assemble_data_value(ts, Taken(ts, Taken(ts, a)),
                             DataSize(peek_token(ts, Taken(ts, a)).s))

\* assemble_data
assemble_data(ts, a) ==
    CASE peek_token(ts, a).t = "word" ->
            IF peek_token(ts, a).s \in DOMAIN a.labels
            THEN Asm("err", [Taken(ts, a) EXCEPT
                                !.labels = Insert(@, peek_token(ts, a).s,
                                                  Len(a.program))])
            ELSE assemble_data_type(ts,
                     [Taken(ts, a) EXCEPT
                         !.labels = Insert(@, peek_token(ts, a).s,
                                           Len(a.program))])
      [] peek_token(ts, a).t = "none" -> Asm("abort", a)
      [] OTHER -> Asm("err", Taken(ts, a))

\* assemble_directive
assemble_directive(ts, a) ==
    CASE peek_token(ts, a).t = "keyword" /\ peek_token(ts, a).s = "data" ->
            assemble_data(ts, Taken(ts, a))
      [] peek_token(ts, a).t = "none" -> Asm("abort", a)
      [] OTHER -> Asm("err", Taken(ts, a))

\* the second loop of assemble leaving the placeholder of a label that is
\* not declared
resolve_lenient(a) ==
    Asm("ok",
        [a EXCEPT !.program =
            [p \in 1..Len(a.program) |->
                IF \E i \in DOMAIN a.unresolved :
                      /\ p \in (i + 1)..(i + 8)
                      /\ a.unresolved[i] \in DOMAIN a.labels
                THEN LET i == CHOOSE i \in DOMAIN a.unresolved :
                                 p \in (i + 1)..(i + 8)
                     IN  to_le_bytes(a.labels[a.unresolved[i]], 8)[p - i]
                ELSE a.program[p]]])

\* the second loop of assemble: every recorded position gets the offset of
\* its label, or the assembly fails on a label that is not declared
resolve(a) ==
    IF \E i \in DOMAIN a.unresolved : a.unresolved[i] \notin DOMAIN a.labels
    THEN Asm("err", a)
    ELSE Asm("ok",
             [a EXCEPT !.program =
                 [p \in 1..Len(a.program) |->
                     IF \E i \in DOMAIN a.unresolved : p \in (i + 1)..(i + 8)
                     THEN LET i == CHOOSE i \in DOMAIN a.unresolved :
                                      p \in (i + 1)..(i + 8)
                          IN  to_le_bytes(a.labels[a.unresolved[i]], 8)[p - i]
                     ELSE a.program[p]]])

RECURSIVE assemble_loop(_, _)
assemble_next(ts, r) ==
    IF r.st = "ok" THEN assemble_loop(ts, r.a) ELSE r

\* the first loop of assemble: labels, instructions and directives up to Eof
assemble_loop(ts, a) ==
    CASE peek_token(ts, a).t = "word" ->
            IF peek_token(ts, Taken(ts, a)).t = "colon"
            THEN assemble_loop(ts,
                     [Taken(ts, Taken(ts, a)) EXCEPT
                         !.labels = Insert(@, peek_token(ts, a).s,
                                           Len(a.program))])
            ELSE assemble_next(ts, assemble_instruction(ts, Taken(ts, a),
                                                        peek_token(ts, a).s))
      [] peek_token(ts, a).t = "dot" ->
            assemble_next(ts, assemble_directive(ts, Taken(ts, a)))
      [] peek_token(ts, a).t = "eof" -> resolve(Taken(ts, a))
      [] peek_token(ts, a).t = "none" -> Asm("abort", a)
      [] OTHER -> Asm("err", Taken(ts, a))

\* Assembler::assemble over the tokens ts
assemble(ts) ==
    IF peek_token(ts, NewAssembler).t = "dot"
         /\ peek_token(ts, Taken(ts, NewAssembler)).t = "keyword"
         /\ peek_token(ts, Taken(ts, NewAssembler)).s = "entry"
    THEN assemble_next(ts, assemble_label(ts, Taken(ts, Taken(ts, NewAssembler))))
    ELSE Asm("err", NewAssembler)

\* A statement of a source: a label declaration `name:`, a directive
\* `.data name .type value` or an instruction; name is the label it
\* declares, ref the label its operand names ("" for none).
LabelDecl(name) ==
    [kind |-> "label", name |-> name, ref |-> "",
     tokens |-> <<Word(name), Colon>>]
DataDecl(name, type, value) ==
    [kind |-> "data", name |-> name, ref |-> "",
     tokens |-> <<Dot, Keyword("data"), Word(name), Dot, Keyword(type)>>
                  \o value]
Ins(mnemonic, operand) ==
    [kind |-> "ins", name |-> "",
     ref |-> IF operand # <<>> /\ operand[1].t = "word" THEN operand[1].s
             ELSE "",
     tokens |-> <<Word(mnemonic)>> \o operand]

\* A source: `.entry entry` and the statements after it
Source(entry, statements) == [entry |-> entry, statements |-> statements]

\* the tokens Tokeniser::tokenise gives for a source
Tokens(src) ==
    <<Dot, Keyword("entry"), Word(src.entry)>>
      \o Concat([i \in 1..Len(src.statements) |-> src.statements[i].tokens])
      \o <<Eof>>

\* the statements the sources of the model are made of
Statements ==
    { LabelDecl("main"), LabelDecl("loop"),
      DataDecl("input", "word", <<Number(9)>>),
      DataDecl("ptr", "dword", <<>>),
      DataDecl("main", "byte", <<Char(97)>>),
      Ins("push", <<Number(1)>>), Ins("push.b", <<Number(-1)>>),
      Ins("push.d", <<Word("ptr")>>), Ins("jmp.lt", <<Word("loop")>>),
      Ins("ret", <<>>) }

\* test_assemble
SrcAssemble ==
    Source("main",
           <<Ins("push", <<Number(1)>>), LabelDecl("main"),
             Ins("push", <<Number(1)>>), LabelDecl("loop"),
             Ins("push", <<Number(1)>>), Ins("add", <<>>),
             Ins("cmp", <<Number(10)>>), Ins("jmp.lt", <<Word("loop")>>),
             Ins("ret", <<>>)>>)

\* test_assemble2
SrcAssemble2 ==
    Source("main",
           <<LabelDecl("main"), Ins("push", <<Number(22)>>),
             Ins("push", <<Number(33)>>), Ins("call", <<Word("add")>>),
             Ins("store", <<Number(0)>>), Ins("ret", <<>>),
             LabelDecl("add"), Ins("load", <<Number(0)>>),
             Ins("load", <<Number(1)>>), Ins("add", <<>>), Ins("ret", <<>>)>>)

\* test_assemble3
SrcAssemble3 ==
    Source("main",
           <<DataDecl("input", "word", <<Number(9)>>),
             DataDecl("ptr", "dword", <<>>), LabelDecl("main"),
             Ins("push.d", <<Number(1)>>), Ins("push.d", <<Word("ptr")>>),
             Ins("add.d", <<>>), Ins("ret", <<>>)>>)

\* sources the assembler stops on: a mnemonic it leaves as todo!(), an
\* operand out of the range of its type, a directive without a type, a
\* string given to a .word, a statement that starts with a number
SrcOdd ==
    { Source("main", <<LabelDecl("main"), Ins("ret.d", <<>>)>>),
      Source("main", <<LabelDecl("main"), Ins("push.b", <<Number(128)>>)>>),
      Source("main", <<LabelDecl("main"), Ins("load", <<Number(-1)>>)>>),
      Source("main", <<LabelDecl("main"), Ins("push", <<Word("main")>>)>>),
      Source("main", <<LabelDecl("main"), Ins("nop", <<>>)>>),
      Source("main", <<DataDecl("s", "string", <<String(<<97, 98, 99>>)>>),
                       LabelDecl("main"), Ins("push.d", <<Word("s")>>)>>),
      Source("main", <<DataDecl("s", "word", <<String(<<97>>)>>)>>),
      Source("main", <<DataDecl("c", "word", <<Char(97)>>),
                       DataDecl("b", "byte", <<Number(-1)>>),
                       LabelDecl("main")>>),
      Source("main", <<[kind |-> "data", name |-> "x", ref |-> "",
                        tokens |-> <<Dot, Keyword("data"), Word("x")>>]>>),
      Source("main", <<[kind |-> "ins", name |-> "", ref |-> "",
                        tokens |-> <<Number(16), Colon>>]>>) }

\* the sources of the model: the three of the tests, the odd ones, and
\* every sequence of at most MaxStatements statements after `.entry main`
Sources ==
    {SrcAssemble, SrcAssemble2, SrcAssemble3} \cup SrcOdd
      \cup UNION { { Source("main", ss) : ss \in [1..n -> Statements] }
                   : n \in 0..MaxStatements }

\* Assembler::new(src): the source is in output, its tokens in lines
AsmInit ==
    /\ output \in Sources
    /\ lines = Tokens(output)
    /\ image = <<>>
    /\ driver = "asm"
    /\ overflowChecks = FALSE
    /\ interp = NewAssembler
    /\ state = "Off"
    /\ breakpoints = {}
    /\ crashed = FALSE
    /\ last = Last("new", 0, TRUE, 0, FALSE, FALSE, 0)

Asm_assembled(r) ==
    /\ interp' = r.a
    /\ image' = IF r.st = "ok" THEN r.a.program ELSE <<>>
    /\ crashed' = (r.st = "abort")
    /\ last' = Last("assemble", 0, r.st = "ok", r.a.position, r.st = "err",
                    FALSE, 0)

\* Assembler::assemble: image is the Vec<u8> of an Ok
Asm_assemble ==
    /\ driver = "asm" /\ last.cmd = "new"
    /\ Asm_assembled(assemble(lines))
    /\ UNCHANGED <<output, overflowChecks, driver, state, breakpoints, lines>>

\* the arms of the match of Output::fmt_text: for a variant the word that
\* is printed and the type of the operand that is read and printed after it
\* ("" for none). A variant of the assembler's enum without an arm (Fail)
\* ends the disassembly as a byte that is no opcode does.
Printed ==
    (    "Push"   :> <<"push",    "i32">> @@ "PushD"  :> <<"push.d",  "i64">>
      @@ "PushB"  :> <<"push",    "i8">>  @@ "Pop"    :> <<"pop",     "">>
      @@ "PopD"   :> <<"pop.d",   "">>    @@ "PopB"   :> <<"pop.b",   "">>
      @@ "Load"   :> <<"load",    "u64">> @@ "LoadD"  :> <<"load.d",  "u64">>
      @@ "LoadB"  :> <<"load.b",  "u64">> @@ "Store"  :> <<"store",   "u64">>
      @@ "StoreD" :> <<"store.d", "u64">> @@ "StoreB" :> <<"store.b", "u64">>
      @@ "Get"    :> <<"get",     "u64">> @@ "GetD"   :> <<"get.d",   "u64">>
      @@ "GetB"   :> <<"get.b",   "u64">> @@ "Add"    :> <<"add",     "">>
      @@ "AddD"   :> <<"add.d",   "">>    @@ "AddB"   :> <<"add.b",   "">>
      @@ "Sub"    :> <<"sub",     "">>    @@ "SubD"   :> <<"sub.d",   "">>
      @@ "SubB"   :> <<"sub.b",   "">>    @@ "Mul"    :> <<"mul",     "">>
      @@ "MulD"   :> <<"mul.d",   "">>    @@ "Div"    :> <<"div",     "">>
      @@ "DivD"   :> <<"div.d",   "">>    @@ "Cmp"    :> <<"cmp",     "">>
      @@ "CmpD"   :> <<"cmp.d",   "">>    @@ "Dup"    :> <<"dup",     "">>
      @@ "DupD"   :> <<"dup.d",   "">>    @@ "Jmp"    :> <<"jmp",     "u64">>
      @@ "JmpLt"  :> <<"jmp.lt",  "u64">> @@ "JmpEq"  :> <<"jmp.eq",  "u64">>
      @@ "JmpGt"  :> <<"jmp.gt",  "u64">> @@ "JmpNe"  :> <<"jmp.ne",  "u64">>
      @@ "Call"   :> <<"call",    "u64">> @@ "Panic"  :> <<"panic",   "">>
      @@ "Ret"    :> <<"ret",     "">>    @@ "RetW"   :> <<"ret.w",   "">>
      @@ "RetD"   :> <<"ret.d",   "">> )

\* T::SIZE of an operand type of fmt_text
PrintedSize(T) ==
    CASE T = "i8" -> 1 [] T = "i32" -> 4 [] T \in {"i64", "u64"} -> 8
      [] OTHER -> 0

\* the number `{operand}` prints for the bytes b of an operand of type T
PrintedOperand(T, b) ==
    CASE T = "i8" -> IF b[1] >= 128 THEN b[1] - 256 ELSE b[1]
      [] T = "i32" -> from_le_i32(b)
      [] OTHER -> from_le_u64(b)

\* The tokens Tokeniser gives for what fmt_text writes from offset p of the
\* text on: for each instruction the line `label:` when its position has a
\* label, then `{pos:4}: `, the word and the operand (the comment
\* ` ; label` is skipped by the tokeniser). Token "panic" stands for a
\* fmt::Error, on which to_string() panics.
RECURSIVE fmt_text_tokens(_, _)
fmt_text_tokens(out, p) ==
    IF p >= Len(out.text) \/ out.text[p + 1] >= Len(AsmBytecode)
         \/ AsmBytecode[out.text[p + 1] + 1] \notin DOMAIN Printed
    THEN <<>>
    ELSE LET pos == p + HEADER_SIZE + Len(out.data)
             arm == Printed[AsmBytecode[out.text[p + 1] + 1]]
             k == PrintedSize(arm[2])
         IN  (IF pos \in DOMAIN out.labels
              THEN <<Word(out.labels[pos]), Colon>> ELSE <<>>)
               \o <<Number(pos), Colon, Word(arm[1])>>
               \o (IF k = 0 THEN fmt_text_tokens(out, p + 1)
                   ELSE IF p + 1 + k > Len(out.text)
                   THEN <<Token("panic", "", 0, <<>>)>>
                   ELSE <<Number(PrintedOperand(arm[2],
                                     SubSeq(out.text, p + 2, p + 1 + k)))>>
                          \o fmt_text_tokens(out, p + 1 + k))

\* the tokens of what fmt_entry writes: `.entry` and the label of the entry,
\* or its number when no label has that offset
fmt_entry_tokens(out) ==
    <<Dot, Keyword("entry")>>
      \o (IF out.entry \in DOMAIN out.labels
          THEN <<Word(out.labels[out.entry])>> ELSE <<Number(out.entry)>>)

\* Assembler::new(&output.to_string()): the tokens of the disassembly. Each
\* line of fmt_data ends in `|...|`, a character the tokeniser panics on
\* (the result is then the single token "panic").
Disassembled(out) ==
    IF out.data # <<>>
         \/ \E i \in 1..Len(fmt_text_tokens(out, 0)) :
               fmt_text_tokens(out, 0)[i].t = "panic"
    THEN <<Token("panic", "", 0, <<>>)>>
    ELSE fmt_entry_tokens(out) \o fmt_text_tokens(out, 0) \o <<Eof>>

\* the bytes the .data directives of a source gave an image
DataLength(src) ==
    IF \E i \in 1..Len(src.statements) : src.statements[i].kind # "data"
    THEN Len(Concat([i \in 1..(CHOOSE j \in 1..Len(src.statements) :
                                  /\ src.statements[j].kind # "data"
                                  /\ \A k \in 1..(j - 1) :
                                        src.statements[k].kind = "data") - 1
                        |-> Zeros(IF Len(src.statements[i].tokens) > 5
                                       /\ src.statements[i].tokens[6].t
                                            = "string"
                                  THEN Len(src.statements[i].tokens[6].b)
                                  ELSE DataSize(src.statements[i].tokens[5].s))]))
    ELSE 0

\* the label tables an assembler's labels can be turned into: each declared
\* offset with one of the names declared at it
LabelTablesOf(labels) ==
    { t \in [{labels[n] : n \in DOMAIN labels} -> DOMAIN labels] :
        \A o \in DOMAIN t : labels[t[o]] = o }

\* The Output of an assembled image whose data precedes its text: the
\* header, the bytes of the .data directives, the rest, and a label table.
AsOutput(program, dlen, table) ==
    NewOutput(from_le_u64(SubSeq(program, 1, HEADER_SIZE)),
              SubSeq(program, HEADER_SIZE + 1, HEADER_SIZE + dlen),
              SubSeq(program, HEADER_SIZE + dlen + 1, Len(program)),
              table)

\* Assembler::new(text).assemble() for the tokens of a disassembly
reassemble(ts) ==
    IF ts[1].t = "panic" THEN Asm("abort", NewAssembler) ELSE assemble(ts)

\* the disassembly of the image is assembled again; the first image stays
\* in image, the second is the program of the assembler
Asm_reassemble(table) ==
    /\ driver = "asm" /\ last.cmd = "assemble" /\ last.ok
    /\ \A i, j \in 1..Len(output.statements) :
          (output.statements[i].kind = "data"
             /\ output.statements[j].kind # "data") => i < j
    /\ interp' = reassemble(Disassembled(AsOutput(image, DataLength(output),
                                                  table))).a
    /\ crashed' = (reassemble(Disassembled(AsOutput(image, DataLength(output),
                                                    table))).st = "abort")
    /\ last' = Last("reassemble", 0,
                    reassemble(Disassembled(AsOutput(image, DataLength(output),
                                                     table))).st = "ok",
                    0, FALSE, FALSE, 0)
    /\ UNCHANGED <<Fixed, state, breakpoints, lines>>

AsmNext ==
    \/ Asm_assemble
    \/ \E table \in LabelTablesOf(interp.labels) : Asm_reassemble(table)

AsmSpec == AsmInit /\ [][AsmNext]_vars

----------------------------------------------------------------------------
(* A write and the read after it: Heap::write / Heap::read, astore / aload  *)

\* heaps the calls of Heap leave: one allocation of zeros; two written
\* allocations; the same with the first one freed; an empty allocation
\* before a written one
RwFilled(h, ptr, bytes) == heap_write(h, ptr, 0, bytes).heap
RwTwo ==
    RwFilled(heap_alloc(RwFilled(heap_alloc(NewHeap, 16).heap, HEAP_BASE,
                                 [i \in 1..16 |-> 100 + i]), 4).heap,
             HEAP_BASE + HEAP_STRIDE, <<21, 22, 23, 24>>)
RwHeaps ==
    { heap_alloc(NewHeap, 16).heap,
      RwTwo,
      heap_free(RwTwo, HEAP_BASE).heap,
      RwFilled(heap_alloc(heap_alloc(NewHeap, 0).heap, 16).heap,
               HEAP_BASE + HEAP_STRIDE, [i \in 1..16 |-> 100 + i]) }

\* the operands of a write: a pointer (of an allocation, of none, of the
\* empty ones), an offset and the bytes of a value of 1, 4 or 8 bytes
RwOperands ==
    [ptr : {DANGLING, HEAP_BASE, HEAP_BASE + HEAP_STRIDE,
            HEAP_BASE + 2 * HEAP_STRIDE},
     offset : {0, 2, 12, 16},
     src : {[i \in 1..T |-> 200 + i] : T \in {1, 4, 8}}]

\* the position in UnitTable of the instruction with opcode op
UnitProbe(op) == CHOOSE p \in UnitTable.probes : CodeView(UnitTable)[p + 1] = op

\* the astore and the aload of a value of T bytes
AStoreOf(T) == CASE T = 1 -> OpAStoreB [] T = 4 -> OpAStore [] T = 8 -> OpAStoreD
ALoadOf(T) == CASE T = 1 -> OpALoadB [] T = 4 -> OpALoad [] T = 8 -> OpALoadD

\* a frame over one of the heaps, its operand stack empty; lines holds the
\* operands, interp.dst the buffer Heap::read fills
RwInit ==
    /\ output = UnitTable
    /\ image = CodeView(output)
    /\ driver = "rw"
    /\ overflowChecks = FALSE
    /\ \E h \in RwHeaps :
          interp = [pc |-> output.entry,
                    frames |-> <<NewFrame(UnitLocals, NewOperandStack, h,
                                          output.entry, 0)>>,
                    dst |-> <<>>]
    /\ state = "Off"
    /\ breakpoints = {}
    /\ lines \in RwOperands
    /\ crashed = FALSE
    /\ last = Last("new", 0, TRUE, 0, FALSE, FALSE, 0)

Rw_written(r) ==
    /\ interp' = [interp EXCEPT !.frames = Shared(interp.frames, r.heap)]
    /\ crashed' = r.abort
    /\ last' = Last("write", lines.ptr, r.ok, 0, FALSE, FALSE, 0)

\* heap.write(ptr, offset, &src)
Rw_write ==
    /\ driver = "rw" /\ last.cmd = "new"
    /\ Rw_written(heap_write(TheHeap(interp), lines.ptr, lines.offset,
                             lines.src))
    /\ UNCHANGED <<Fixed, state, breakpoints, lines>>

Rw_read_returned(r) ==
    /\ interp' = [interp EXCEPT !.dst = r.val]
    /\ crashed' = r.abort
    /\ last' = Last("read", lines.ptr, r.ok, 0, FALSE, FALSE, 0)

\* heap.read(ptr, offset, &mut dst) after the write, dst as long as src
Rw_read ==
    /\ driver = "rw" /\ last.cmd = "write" /\ ~crashed
    /\ Rw_read_returned(heap_read(TheHeap(interp), lines.ptr, lines.offset,
                                  Len(lines.src)))
    /\ UNCHANGED <<Fixed, state, breakpoints, lines>>

Rw_stepped(cmd, p, r) ==
    /\ interp' = [pc |-> r.pc, frames |-> <<r.frame>>, dst |-> <<>>]
    /\ crashed' = (r.kind = "abort")
    /\ last' = Last(cmd, p, r.kind = "none", r.pc, r.kind = "err", FALSE, 0)

\* Frame::step of astore T with ptr, offset and the value pushed
Rw_astore ==
    /\ driver = "rw" /\ last.cmd = "new"
    /\ Rw_stepped("astore", UnitProbe(AStoreOf(Len(lines.src))),
           frame_step([Top(interp.frames) EXCEPT
                          !.opstack = Pushed(@, <<to_le_bytes(lines.ptr, 8),
                                                  to_le_bytes(lines.offset, 8),
                                                  lines.src>>)],
                      UnitProbe(AStoreOf(Len(lines.src)))))
    /\ UNCHANGED <<Fixed, state, breakpoints, lines>>

\* Frame::step of aload T after the astore, with ptr and offset pushed again
Rw_aload ==
    /\ driver = "rw" /\ last.cmd = "astore" /\ last.ok
    /\ Rw_stepped("aload", UnitProbe(ALoadOf(Len(lines.src))),
           frame_step([Top(interp.frames) EXCEPT
                          !.opstack = Pushed(@, <<to_le_bytes(lines.ptr, 8),
                                                  to_le_bytes(lines.offset, 8)>>)],
                      UnitProbe(ALoadOf(Len(lines.src)))))
    /\ UNCHANGED <<Fixed, state, breakpoints, lines>>

RwNext == Rw_write \/ Rw_read \/ Rw_astore \/ Rw_aload

RwSpec == RwInit /\ [][RwNext]_vars

----------------------------------------------------------------------------
(* Threads sharing one Heap (heap.rs): each call a sequence of steps        *)

Threads == {1, 2}

\* A call of Heap: alloc(size), free(ptr), read(ptr, offset, dst) with dst
\* of size bytes, write(ptr, offset, src)
Call(name, size, ptr, offset, src) ==
    [name |-> name, size |-> size, ptr |-> ptr, offset |-> offset,
     src |-> src]

\* the calls of the model; free of a pointer of no allocation and a read
\* beyond the allocation are Rust panics
Calls ==
    { Call("alloc", 4, 0, 0, <<>>), Call("alloc", 16, 0, 0, <<>>),
      Call("free", 0, HEAP_BASE, 0, <<>>),
      Call("free", 0, HEAP_BASE + 2 * HEAP_STRIDE, 0, <<>>),
      Call("read", 2, HEAP_BASE, 0, <<>>),
      Call("read", 2, HEAP_BASE, 15, <<>>),
      Call("read", 2, HEAP_BASE + 2 * HEAP_STRIDE, 0, <<>>),
      Call("write", 2, HEAP_BASE, 0, <<7, 9>>),
      Call("write", 2, HEAP_BASE, 1, <<5, 6>>) }

\* the heaps the threads start on: two written allocations, none, the
\* first, or both of them freed
ThreadHeaps ==
    { RwTwo, heap_free(RwTwo, HEAP_BASE).heap,
      heap_free(heap_free(RwTwo, HEAP_BASE).heap,
                HEAP_BASE + HEAP_STRIDE).heap }

\* the mutexes a call locks, in the order of its `lock().unwrap()` lines
LockOrder_free_first(name) ==
    IF name = "free" THEN <<"free", "allocations">>
    ELSE IF name = "alloc" THEN <<"allocations", "free">>
    ELSE <<"allocations">>

LockOrder(name) ==
    IF name \in {"alloc", "free"} THEN <<"allocations", "free">>
    ELSE <<"allocations">>

\* What a call returned: panicked for a Rust panic, ptr for alloc, ok and
\* dst for read and write
Returned(panicked, ptr, ok, dst) ==
    [panicked |-> panicked, ptr |-> ptr, ok |-> ok, dst |-> dst]

\* A thread: its call, where it is in it (at: "idle", "lock", "scan",
\* "apply", "free", "find", "copy", "unlock", "done", "panicked"), k the
\* next mutex of its lock order, found the place scanned in the free list
\* or the allocation found, n the bytes copied, dst its buffer, ret what the
\* call returned, before the threads that had returned when it called
NewThread(call) ==
    [call |-> call, at |-> "idle", k |-> 1, found |-> 0, n |-> 0,
     dst |-> Zeros(call.size), ret |-> Returned(FALSE, 0, FALSE, <<>>),
     before |-> {}]

\* a heap shared by the threads, each about to make one call; held[m] is
\* the thread that holds mutex m (0 for none), poisoned[m] whether a thread
\* panicked holding it
ThreadsInit ==
    /\ output = ProgScenario5Typed
    /\ image = CodeView(output)
    /\ driver = "threads"
    /\ overflowChecks = FALSE
    /\ \E h \in ThreadHeaps : \E c \in [Threads -> Calls] :
          interp = [heap |-> h, init |-> h,
                    held |-> [allocations |-> 0, free |-> 0],
                    poisoned |-> [allocations |-> FALSE, free |-> FALSE],
                    threads |-> [t \in Threads |-> NewThread(c[t])]]
    /\ state = "Off"
    /\ breakpoints = {}
    /\ lines = <<>>
    /\ crashed = FALSE
    /\ last = Last("new", 0, TRUE, 0, FALSE, FALSE, 0)

HasReturned(th) == th.at \in {"done", "panicked"}

\* the body of a call begins
BodyOf(name) ==
    CASE name = "alloc" -> "scan" [] name = "free" -> "free" [] OTHER -> "find"

\* a panic in thread t: the guards it holds are dropped while panicking,
\* which poisons their mutexes
Panicked(ip, t) ==
    [ip EXCEPT
        !.held = [m \in DOMAIN @ |-> IF @[m] = t THEN 0 ELSE @[m]],
        !.poisoned = [m \in DOMAIN @ |-> @[m] \/ ip.held[m] = t],
        !.threads[t].at = "panicked",
        !.threads[t].ret = Returned(TRUE, 0, FALSE, <<>>)]

\* what the steps of the threads leave alone
ThreadsFixed == <<Fixed, state, breakpoints, lines, crashed, last>>

\* thread t calls
Thread_call(t) ==
    /\ driver = "threads" /\ interp.threads[t].at = "idle"
    /\ interp' = [interp EXCEPT
                     !.threads[t].at = "lock",
                     !.threads[t].before =
                         {u \in Threads : HasReturned(interp.threads[u])}]
    /\ UNCHANGED ThreadsFixed

\* thread t has mutex m of its own: unwrap panics when it is poisoned
Locked(ip, t, m) ==
    IF ip.poisoned[m] THEN Panicked([ip EXCEPT !.held[m] = t], t)
    ELSE [ip EXCEPT
             !.held[m] = t,
             !.threads[t].k = @ + 1,
             !.threads[t].at =
                 IF ip.threads[t].k = Len(LockOrder(ip.threads[t].call.name))
                 THEN BodyOf(ip.threads[t].call.name) ELSE "lock"]

\* self.<mutex>.lock().unwrap(): waits while another thread holds it
Thread_lock(t) ==
    /\ driver = "threads" /\ interp.threads[t].at = "lock"
    /\ interp.held[LockOrder(interp.threads[t].call.name)[interp.threads[t].k]]
         = 0
    /\ interp' = Locked(interp, t,
                     LockOrder(interp.threads[t].call.name)[interp.threads[t].k])
    /\ UNCHANGED ThreadsFixed

\* alloc: the loop over the free list
Thread_scan(t) ==
    /\ driver = "threads" /\ interp.threads[t].at = "scan"
    /\ interp' = [interp EXCEPT
                     !.threads[t].at = "apply",
                     !.threads[t].found =
                         IF Fits(interp.heap, interp.threads[t].call.size) # {}
                         THEN Least(Fits(interp.heap,
                                         interp.threads[t].call.size))
                         ELSE 0]
    /\ UNCHANGED ThreadsFixed

\* the allocation alloc hands out after its scan, and the heap then
Applied(h, size, found) ==
    IF found = 0
    THEN [heap |-> [h EXCEPT !.allocations = Append(@, NewAllocation(size))],
          ptr |-> as_ptr(Len(h.allocations), Zeros(size))]
    ELSE IF found <= Len(h.free) /\ h.free[found] < Len(h.allocations)
    THEN alloc_found(h, found)
    ELSE [heap |-> h, ptr |-> 0]

\* alloc: the found allocation is taken off the free list, or a new one is
\* pushed; found becomes the index of the allocation returned
Thread_apply(t) ==
    /\ driver = "threads" /\ interp.threads[t].at = "apply"
    /\ interp' =
         [interp EXCEPT
             !.heap = Applied(interp.heap, interp.threads[t].call.size,
                              interp.threads[t].found).heap,
             !.threads[t].at = "unlock",
             !.threads[t].found =
                 IF interp.threads[t].found = 0
                 THEN Len(interp.heap.allocations)
                 ELSE IF interp.threads[t].found <= Len(interp.heap.free)
                 THEN interp.heap.free[interp.threads[t].found]
                 ELSE -1,
             !.threads[t].ret =
                 Returned(FALSE,
                          Applied(interp.heap, interp.threads[t].call.size,
                                  interp.threads[t].found).ptr,
                          FALSE, <<>>)]
    /\ UNCHANGED ThreadsFixed

\* free: the allocation is found and flagged, or todo!() panics
Thread_free(t) ==
    /\ driver = "threads" /\ interp.threads[t].at = "free"
    /\ interp' =
         IF heap_free(interp.heap, interp.threads[t].call.ptr).abort
         THEN Panicked(interp, t)
         ELSE [interp EXCEPT
                  !.heap = heap_free(interp.heap,
                                     interp.threads[t].call.ptr).heap,
                  !.threads[t].at = "unlock"]
    /\ UNCHANGED ThreadsFixed

\* read and write after the allocation is looked up: false without one, a
\* panic when the slices leave it, else the copy begins
Found(ip, t, ids) ==
    IF ids = {}
    THEN [ip EXCEPT !.threads[t].at = "unlock",
                    !.threads[t].ret = Returned(FALSE, 0, FALSE,
                                                ip.threads[t].dst)]
    ELSE IF ip.threads[t].call.offset
               > Len(ip.heap.allocations[Least(ids) + 1].mem)
            \/ ip.threads[t].call.size
                 > Len(ip.heap.allocations[Least(ids) + 1].mem)
                     - ip.threads[t].call.offset
    THEN Panicked(ip, t)
    ELSE [ip EXCEPT !.threads[t].at = "copy",
                    !.threads[t].found = Least(ids)]

\* read, write: allocations.iter().find(..) and the slices
Thread_find(t) ==
    /\ driver = "threads" /\ interp.threads[t].at = "find"
    /\ interp' = Found(interp, t, Named(interp.heap, interp.threads[t].call.ptr))
    /\ UNCHANGED ThreadsFixed

\* copy_from_slice, a byte at a step: read copies into dst, write into the
\* allocation; after the last byte the call returns true
Copied(ip, t, th) ==
    IF th.n = th.call.size
    THEN [ip EXCEPT !.threads[t].at = "unlock",
                    !.threads[t].ret = Returned(FALSE, 0, TRUE, th.dst)]
    ELSE IF th.call.name = "read"
    THEN [ip EXCEPT
             !.threads[t].n = @ + 1,
             !.threads[t].dst[th.n + 1] =
                 ip.heap.allocations[th.found + 1].mem[th.call.offset + th.n + 1]]
    ELSE [ip EXCEPT
             !.threads[t].n = @ + 1,
             !.heap.allocations[th.found + 1].mem[th.call.offset + th.n + 1] =
                 th.call.src[th.n + 1]]

Thread_copy(t) ==
    /\ driver = "threads" /\ interp.threads[t].at = "copy"
    /\ interp' = Copied(interp, t, interp.threads[t])
    /\ UNCHANGED ThreadsFixed

\* the call returns: its guards are dropped, the last taken first
Thread_unlock(t) ==
    /\ driver = "threads" /\ interp.threads[t].at = "unlock"
    /\ interp' =
         [interp EXCEPT
             !.held[LockOrder(interp.threads[t].call.name)
                                 [interp.threads[t].k - 1]] = 0,
             !.threads[t].k = @ - 1,
             !.threads[t].at = IF interp.threads[t].k = 2 THEN "done"
                               ELSE "unlock"]
    /\ UNCHANGED ThreadsFixed

ThreadsNext ==
    \E t \in Threads :
        \/ Thread_call(t)
        \/ Thread_lock(t)
        \/ Thread_scan(t)
        \/ Thread_apply(t)
        \/ Thread_free(t)
        \/ Thread_find(t)
        \/ Thread_copy(t)
        \/ Thread_unlock(t)

ThreadsSpec == ThreadsInit /\ [][ThreadsNext]_vars

----------------------------------------------------------------------------
(* The operand stack alone (stack.rs), as test_stack drives it             *)

\* the most operations applied to one operand stack
MaxStackOps == 3

\* an operand stack of k slots whose 512 bytes are all nonzero: what earlier
\* pushes and pops leave below and above idx
StackFilled(k) == [stack |-> [b \in 1..STACK_SIZE |-> (b % 255) + 1], idx |-> k]

\* a new stack, and used stacks around the depths at which the window of
\* the rendering moves and at the ends of the buffer
StackDepths == {0, 1, 2, 7, 8, 9, 38, 39, Capacity - 1, Capacity}
StackStates == {NewOperandStack} \cup {StackFilled(k) : k \in StackDepths}

\* the values pushed: a byte, words (0x40000000 of test_stack) and dwords
StackValues ==
    {<<200>>, to_le_bytes(1073741824, 4), to_le_bytes(-2, 4),
     to_le_bytes(9, 8), to_le_bytes(-1, 8)}

\* impl Display for OperandStack: the i32 values written between the
\* brackets, the column of the cursor and the idx written after it; the
\* range of a slice past the buffer is a Rust panic
fmt_stack(os) ==
    LET from == Max(os.idx - 8, 0) * SLOT_SIZE
        until == (from + 8) * SLOT_SIZE
        min_idx == Min(os.idx, 8)
    IN  IF until > STACK_SIZE
        THEN [abort |-> TRUE, slots |-> <<>>, cursor |-> 0, idx |-> os.idx]
        ELSE [abort |-> FALSE,
              slots |-> [k \in 1..((until - from) \div 4) |->
                            from_le_i32(Slice(os.stack, from + 4 * (k - 1), 4))],
              cursor |-> min_idx + min_idx * 8,
              idx |-> os.idx]

\* one operand stack; interp.ret is what the last call returned
StackInit ==
    /\ output = UnitTable
    /\ image = CodeView(output)
    /\ driver = "stack"
    /\ overflowChecks \in BOOLEAN
    /\ \E os \in StackStates : interp = [os |-> os, ret |-> <<>>]
    /\ state = "Off"
    /\ breakpoints = {}
    /\ lines = <<>>
    /\ crashed = FALSE
    /\ last = Last("new", 0, TRUE, 0, FALSE, FALSE, 0)

\* a call of the stack is possible: the process lives and the bound allows
StackCallable == driver = "stack" /\ ~crashed /\ last.n < MaxStackOps

Stack_called(cmd, T, r, ret, some) ==
    /\ interp' = [os |-> r.os, ret |-> ret]
    /\ crashed' = r.abort
    /\ last' = Last(cmd, T, some, 0, FALSE, FALSE, last.n + 1)
    /\ UNCHANGED <<Fixed, state, breakpoints, lines>>

\* stack.push::<T>(v)
Stack_push(v) ==
    /\ StackCallable
    /\ Stack_called("push", Len(v), push(interp.os, v), <<>>, TRUE)

Stack_popped(T, r) ==
    Stack_called("pop", T, r, IF r.abort THEN <<>> ELSE r.val, TRUE)

\* stack.pop::<T>()
Stack_pop(T) == StackCallable /\ Stack_popped(T, pop(interp.os, T))

\* stack.dup::<T>()
Stack_dup(T) ==
    /\ StackCallable
    /\ Stack_called("dup", T, dup(interp.os, T), <<>>, TRUE)

Stack_peeked(T, r) ==
    Stack_called("peek", T, [abort |-> r.abort, os |-> interp.os],
                 IF r.some THEN r.val ELSE <<>>, r.some)

\* stack.peek::<T>(), as Debugger::peek calls it
Stack_peek(T) == StackCallable /\ Stack_peeked(T, peek(interp.os, T))

Stack_formatted(r) ==
    Stack_called("fmt", 0, [abort |-> r.abort, os |-> interp.os], r, ~r.abort)

\* stack.to_string(), as the reader `stack` of the debugger prints it
Stack_fmt == StackCallable /\ Stack_formatted(fmt_stack(interp.os))

StackNext ==
    \/ \E v \in StackValues : Stack_push(v)
    \/ \E T \in {1, 4, 8} : Stack_pop(T)
    \/ \E T \in {4, 8} : Stack_dup(T)
    \/ \E T \in {1, 4, 8} : Stack_peek(T)
    \/ Stack_fmt

StackSpec == StackInit /\ [][StackNext]_vars

----------------------------------------------------------------------------
(* Pointers into the image: Frame::dataptr and Frame::get (frame.rs)        *)

\* the most instructions stepped on one frame
MaxDataSteps == 3

\* the data section of test_display: "abc", a zero byte and the word 76
DataBytes == <<97, 98, 99, 0, 76, 0, 0, 0>>

\* dataptr of the first data byte, of the word, of the end of the image's
\* data and of an offset past the image; the offsets pushed as they are;
\* the three gets
DataInstructions ==
    <<I8(OpDataPtr, HEADER_SIZE), I8(OpDataPtr, HEADER_SIZE + 4),
      I8(OpDataPtr, HEADER_SIZE + 8), I8(OpDataPtr, 4096),
      I8(OpPushD, 0), I8(OpPushD, 4), I8(OpPushD, HEADER_SIZE),
      I0(OpGet), I0(OpGetB), I0(OpGetD)>>

DataStart(i) ==
    HEADER_SIZE + Len(DataBytes)
       + Len(Concat(SubSeq(DataInstructions, 1, i - 1)))

DataTable ==
    Output(DataStart(1), DataBytes, Concat(DataInstructions), {DataStart(1)},
           {DataStart(i) : i \in 1..Len(DataInstructions)})

\* addresses a host gives the buffer of an image: never inside the first
\* page, so never an index into an image of this size
ImageAddresses == {65536, 1048576}

\* a frame over the image; interp.trace lists the instructions stepped
DataInit ==
    /\ output = DataTable
    /\ image = CodeView(output)
    /\ driver = "data"
    /\ overflowChecks = FALSE
    /\ interp = [pc |-> output.entry,
                 frames |-> <<NewFrame(UnitLocals, NewOperandStack, UnitHeap,
                                       output.entry, 0)>>,
                 trace |-> <<>>]
    /\ state = "Off"
    /\ breakpoints = {}
    /\ lines \in ImageAddresses
    /\ crashed = FALSE
    /\ last = Last("new", 0, TRUE, 0, FALSE, FALSE, 0)

Data_stepped(p, r) ==
    /\ interp' = [pc |-> r.pc, frames |-> <<r.frame>>,
                  trace |-> Append(interp.trace, p)]
    /\ crashed' = (r.kind = "abort")
    /\ last' = Last("data", p, r.kind = "none", r.pc, r.kind = "err", FALSE,
                    last.n + 1)

\* Frame::step with the cursor at instruction p of the table
Data_step(p) ==
    /\ driver = "data" /\ ~crashed /\ last.ok /\ last.n < MaxDataSteps
    /\ Data_stepped(p, frame_step(Top(interp.frames), p))
    /\ UNCHANGED <<Fixed, state, breakpoints, lines>>

DataNext == \E p \in output.probes : Data_step(p)

DataSpec == DataInit /\ [][DataNext]_vars

----------------------------------------------------------------------------
(* Properties                                                              *)

Returns == {OpRet, OpRetW, OpRetD}

\* the next step is a return executed by main
MainReturns(ip) == Len(ip.frames) = 1 /\ OpcodeAt(ip.pc) \in Returns

\* the positions at which the instructions of the text start
InstructionStarts ==
    DOMAIN fmt_text(image, Len(output.data), output.labels)

\* the 4-byte elements of an operand stack, bottom first
Elements(os) == [i \in 1..os.idx |-> Slice(os.stack, (i - 1) * SLOT_SIZE, 4)]

\* C1: Debugger::run succeeds only in state Off, where it leaves exactly one
\* fresh main frame (empty operand stack, zeroed locals), the cursor at the
\* entry of the image and the state Running, and returns the entry; in state
\* Running it returns an error and changes neither the state, the
\* interpreter nor the breakpoints.
C1_RunRequiresOff ==
    [][last'.cmd = "run" =>
        IF state = "Off"
        THEN /\ last'.ok /\ last'.pos = Entry
             /\ state' = "Running"
             /\ interp'.pc = Entry
             /\ Len(interp'.frames) = 1
             /\ interp'.frames[1].opstack.idx = 0
             /\ interp'.frames[1].locals = Zeros(LOCALS_SIZE)
             /\ interp'.frames[1].entry = Entry
        ELSE /\ ~last'.ok
             /\ UNCHANGED <<state, interp, breakpoints>>]_vars

\* a run accepted after the program had advanced
C1_Witness ==
    /\ last.cmd = "run" /\ last.ok /\ state = "Running"
    /\ interp.pc = Entry /\ breakpoints # {}

C3_ContinueStopsAtFirstBreakpoint ==
    [][last'.cmd = "continue" =>
        IF state = "Off"
        THEN ~last'.ok /\ UNCHANGED <<state, interp, breakpoints, lines>>
        ELSE LET r == run_until(interp, breakpoints, 0, MaxSteps)
             IN  /\ r.status = "ok" =>
                        last'.ok /\ interp' = r.ip /\ state' = "Running"
                 /\ r.status = "finished" => state' = "Off"]_vars

\* C4 (as claimed): after delete_breakpoint(p), p is no breakpoint, every
\* other breakpoint still is one, and the line map is unchanged.
C4_DeleteRemovesBreakpoint ==
    [][last'.cmd = "delete" =>
        /\ last'.arg \notin breakpoints'
        /\ breakpoints \ {last'.arg} \subseteq breakpoints'
        /\ lines' = lines]_vars

\* C5 (as claimed): set_breakpoint(p) succeeds, adding p, exactly when p is
\* the start of an instruction of the text, and otherwise returns an error
\* and leaves the breakpoints alone.
C5_BreakAtInstructionStarts ==
    [][last'.cmd = "break" =>
        /\ last'.ok <=> last'.arg \in InstructionStarts
        /\ breakpoints' =
             IF last'.ok THEN breakpoints \cup {last'.arg} ELSE breakpoints]_vars

\* C6 (as claimed): after a step or continue ended in a fault of the
\* interpreter, the next Debugger::run is accepted and resets the
\* interpreter to the entry.
C6_RunAfterFault ==
    [][last.cmd \in {"step", "continue"} /\ last.fault /\ last'.cmd = "run" =>
        last'.ok /\ last'.pos = Entry /\ interp'.pc = Entry /\ state' = "Running"]_vars

\* C7 (as claimed): when Interpreter::run returns the error of a panic
\* instruction, the frame stack is not empty; after the panic of `push 7; panic; push 99` the top frame's
\* operand stack is [7], and after a panic in a callee the callee is still
\* on top of main.
C7_PanicKeepsFaultingFrame ==
    last.cmd = "run_one" /\ last.fault /\ OpcodeAt(interp.pc - 1) = OpPanic =>
        /\ interp.frames # <<>>
        /\ output = ProgPanic =>
              Elements(Top(interp.frames).opstack) = <<to_le_bytes(7, 4)>>
        /\ output = ProgCalleePanic => Len(interp.frames) = 2

\* the change of the frame-stack depth that the instruction at the cursor
\* makes when it completes: +1 for call, -1 for a return outside main
DepthChange(ip) ==
    CASE OpcodeAt(ip.pc) = OpCall -> 1
      [] OpcodeAt(ip.pc) \in Returns /\ Len(ip.frames) > 1 -> -1
      [] OTHER -> 0

\* calls minus returns outside main among the next k instructions of ip;
\* an instruction that faults is neither
RECURSIVE NetCalls(_, _)
NetCalls(ip, k) ==
    IF k = 0 \/ ip.frames = <<>> THEN 0
    ELSE LET r == interpreter_step(ip)
         IN  IF r.status = "ok" THEN DepthChange(ip) + NetCalls(r.ip, k - 1)
             ELSE 0

\* C8 (as claimed): whenever a command hands control back, the depth of the
\* frame stack has changed by the calls minus the returns outside main among
\* the instructions it executed, so that the depth is always 1 + calls -
\* returns and a frame only goes with a return executed in it; and a command
\* that ends the execution without a fault leaves exactly one frame.
C8_FrameBalance ==
    /\ [][last'.cmd \in {"run_one", "continue", "step"}
          /\ (last'.ok \/ last'.fault \/ last'.finished)
          /\ interp.frames # <<>> =>
            Len(interp'.frames)
              = Len(interp.frames) + NetCalls(interp, last'.n)]_vars
    /\ [](last.cmd \in {"run_one", "continue", "step"} /\ last.finished =>
            Len(interp.frames) = 1)

\* C9: a call with n slots on the caller's operand stack gives the callee
\* locals whose first 4n bytes are the caller's operand-stack bytes before
\* the call and whose other bytes are zero, an empty operand stack and the
\* operand of the call as entry; the caller's operand stack is empty
\* afterwards and the cursor is at the callee's entry.
C9_CallPassesOperandStack ==
    [][last'.cmd = "step" /\ last'.ok /\ state = "Running"
          /\ OpcodeAt(interp.pc) = OpCall =>
        LET caller == Top(interp.frames)
            callee == Top(interp'.frames)
            n      == caller.opstack.idx
            L      == from_le_u64(Slice(image, interp.pc + 1, 8))
        IN  /\ Len(interp'.frames) = Len(interp.frames) + 1
            /\ Slice(callee.locals, 0, 4 * n) = Slice(caller.opstack.stack, 0, 4 * n)
            /\ Slice(callee.locals, 4 * n, LOCALS_SIZE - 4 * n)
                 = Zeros(LOCALS_SIZE - 4 * n)
            /\ callee.opstack.idx = 0
            /\ callee.entry = L /\ interp'.pc = L
            /\ Front(interp'.frames)
                 = [interp.frames EXCEPT ![Len(interp.frames)].opstack.idx = 0]]_vars

\* the call of ProgCall has just passed 22 and 33
C9_Witness ==
    /\ last.cmd = "step" /\ last.ok /\ output = ProgCall
    /\ Len(interp.frames) = 2 /\ interp.pc = 37
    /\ Slice(Top(interp.frames).locals, 0, 8) = to_le_bytes(22, 4) \o to_le_bytes(33, 4)
    /\ interp.frames[1].opstack.idx = 0

\* the number of slots a return instruction transfers
Transfers(op) == CASE op = OpRet -> 0 [] op = OpRetW -> 1 [] op = OpRetD -> 2

\* the effect claimed for a return outside main, from ip to after
ReturnsToCaller(ip, after) ==
    LET callee == Top(ip.frames)
        caller == Top(Front(ip.frames))
        now    == Top(after.frames)
        k      == Transfers(OpcodeAt(ip.pc))
    IN  /\ Len(after.frames) = Len(ip.frames) - 1
        /\ Front(after.frames) = Front(Front(ip.frames))
        /\ after.pc = callee.ret
        /\ image[callee.ret - 9 + 1] = OpCall
        /\ from_le_u64(Slice(image, callee.ret - 8, 8)) = callee.entry
        /\ now.locals = caller.locals
        /\ now.entry = caller.entry /\ now.ret = caller.ret
        /\ now.opstack.idx = caller.opstack.idx + k
        /\ Slice(now.opstack.stack, 0, 4 * caller.opstack.idx)
             = Slice(caller.opstack.stack, 0, 4 * caller.opstack.idx)
        /\ Slice(now.opstack.stack, 4 * caller.opstack.idx, 4 * k)
             = Slice(callee.opstack.stack, 4 * (callee.opstack.idx - k), 4 * k)

\* the cursor is at a return outside main whose value is on the callee's stack
AtReturn(ip) ==
    /\ Len(ip.frames) > 1
    /\ OpcodeAt(ip.pc) \in Returns
    /\ Top(ip.frames).opstack.idx >= Transfers(OpcodeAt(ip.pc))

\* C10: a return outside main removes the callee's frame, makes the caller
\* the top frame and puts the cursor just after the 8-byte operand of the
\* call that created the frame; ret transfers nothing, ret.w pushes the
\* callee's top 4-byte element and ret.d its top 8-byte element onto the
\* caller's operand stack; the caller's locals are unchanged.
C10_ReturnResumesCaller ==
    /\ [](AtReturn(interp) /\ ~crashed =>
            LET r == run_iteration(interp, MaxSteps)
            IN  r.status = "more" /\ ReturnsToCaller(interp, r.ip))
    /\ [][last'.cmd = "step" /\ state = "Running" /\ AtReturn(interp) =>
            last'.ok /\ ReturnsToCaller(interp, interp')]_vars

\* the ret.w of ProgCall has just handed 55 to main
C10_Witness ==
    /\ last.cmd = "step" /\ last.ok /\ output = ProgCall
    /\ Len(interp.frames) = 1 /\ interp.pc = 27
    /\ Elements(Top(interp.frames).opstack) = <<to_le_bytes(55, 4)>>

\* what Interpreter::run makes of the return op executed by main at the
\* cursor of ip
RunOfReturn(ip, op) ==
    run_match(<<>>, dispatch(Top(ip.frames), ip.pc, ip.pc + 1, op)
                      @@ [n |-> 1])

\* what Interpreter::step makes of the return op executed by main at the
\* cursor of ip
StepOfReturn(ip, op) ==
    step_match(<<>>, dispatch(Top(ip.frames), ip.pc, ip.pc + 1, op), 1)

\* C11: when main is about to execute a return, each of ret, ret.w and ret.d
\* in its place stops the execution (run returns Ok, step reports the
\* program finished) with main as the only frame, its operand stack
\* (contents and idx) and locals as before: nothing is popped or
\* transferred; and the step or continue the debugger then makes leaves the
\* frame stack as it was.
C11_MainReturnsEquivalent ==
    [][(MainReturns(interp) /\ ~crashed) =>
         /\ \A op \in Returns :
               /\ RunOfReturn(interp, op).status = "ok"
               /\ RunOfReturn(interp, op).ip.frames = interp.frames
               /\ StepOfReturn(interp, op).status = "finished"
               /\ StepOfReturn(interp, op).ip.frames = interp.frames
         /\ (last'.cmd \in {"step", "continue"} /\ last'.n > 0) =>
               /\ interp'.frames = interp.frames
               /\ ~last'.fault /\ ~crashed'
               /\ (last'.cmd = "step" => last'.finished /\ state' = "Off")
      ]_vars

\* main of the heap scenario has returned by ret.w with the 4-byte 42 still
\* on its operand stack
C11_Witness ==
    /\ output = ProgScenario5Typed
    /\ last.cmd = "step" /\ last.finished
    /\ OpcodeAt(interp.pc) = OpRetW
    /\ Len(interp.frames) = 1
    /\ Top(interp.frames).opstack.idx = 1
    /\ from_le_i32(Slice(Top(interp.frames).opstack.stack, 0, 4)) = 42

\* the 4-byte value on top of the operand stack of the topmost frame
TopWord(ip) ==
    from_le_i32(Slice(Top(ip.frames).opstack.stack,
                      (Top(ip.frames).opstack.idx - 1) * SLOT_SIZE, 4))

\* the program has run to the return of main: Interpreter::run gave Ok, or
\* the step just made was that return
Finished ==
    /\ ~crashed
    /\ Len(interp.frames) = 1
    /\ \/ last.cmd = "run_one" /\ last.ok
       \/ last.cmd = "step" /\ last.finished

\* the execution was ended by a Rust panic raised while executing opcode op
FaultedIn(op) ==
    /\ crashed
    /\ last.cmd \in {"run_one", "step"}
    /\ OpcodeAt(interp.pc - 1) = op

\* C12 as stated: scenario 1 as written runs to the return of main with the
\* 4-byte 10 on top of main's operand stack.
C12_Scenario1AsWritten ==
    (output = ProgScenario1 /\ last.cmd = "run_one") =>
        Finished /\ Top(interp.frames).opstack.idx >= 1 /\ TopWord(interp) = 10

\* C12: scenario 1 as written never reaches the return of main: cmp pops
\* both of its operands and jmp.lt the result, so the add of the second
\* iteration finds one slot and the execution ends there in a stack
\* underflow, after 8 opcodes.  With the counter duplicated before the
\* comparison (dup before push 10) the program runs to the return of main
\* with exactly the 4-byte 10 on main's operand stack.
C12_Scenario1 ==
    /\ output = ProgScenario1 => ~Finished
    /\ (output = ProgScenario1 /\ last.cmd = "run_one") =>
          FaultedIn(OpAdd) /\ last.n = 8
    /\ (output = ProgScenario1Dup /\ last.cmd = "run_one") => Finished
    /\ (output = ProgScenario1Dup /\ Finished) =>
          /\ Top(interp.frames).opstack.idx = 1
          /\ TopWord(interp) = 10

\* the loop with dup has run to the return of main with 10 on top
C12_Witness ==
    /\ output = ProgScenario1Dup
    /\ last.cmd = "run_one" /\ Finished
    /\ last.n = 56
    /\ TopWord(interp) = 10

\* the 4-byte value of local i of the topmost frame
LocalWord(ip, i) == from_le_i32(locals_read(Top(ip.frames).locals, i, 4).val)

\* C13 as stated: scenario 2 as written (add ending in ret) finishes with 55
\* in local 0 of main.
C13_Scenario2AsWritten ==
    (output = ProgScenario2 /\ last.cmd = "run_one") =>
        Finished /\ LocalWord(interp, 0) = 55

\* C13: with add ending in ret no value reaches main, whose store 0 then
\* pops an empty operand stack: the execution ends there in a stack
\* underflow, at the 8th opcode, and never reaches the return of main.  With
\* add ending in ret.w the sum is transferred, the run finishes without a
\* fault and local 0 of main is the 4-byte 55, main's operand stack empty.
C13_Scenario2 ==
    /\ output = ProgScenario2 => ~Finished
    /\ (output = ProgScenario2 /\ last.cmd = "run_one") =>
          /\ crashed /\ last.n = 8
          /\ OpcodeAt(interp.pc - 9) = OpStore
    /\ (output = ProgCall /\ last.cmd = "run_one") => Finished
    /\ (output = ProgCall /\ Finished) =>
          /\ LocalWord(interp, 0) = 55
          /\ Top(interp.frames).opstack.idx = 0

\* the call with ret.w has finished with 55 in local 0 of main
C13_Witness ==
    /\ output = ProgCall
    /\ last.cmd = "run_one" /\ Finished
    /\ last.n = 9
    /\ LocalWord(interp, 0) = 55

\* C14 as stated: scenario 5 as written, called from main, returns 42 to
\* the caller's operand stack without a fault.
C14_Scenario5AsWritten ==
    (output = ProgScenario5 /\ last.cmd = "run_one") =>
        Finished /\ Top(interp.frames).opstack.idx >= 1 /\ TopWord(interp) = 42

\* C14: the routine as written stops at alloc: push 16 leaves one 4-byte
\* slot and alloc pops an 8-byte size, a stack underflow at the 3rd opcode
\* (call, push, alloc), so nothing reaches the caller.  With the size and
\* the offsets pushed as 8-byte values and the value pushed last, as astore
\* pops them (push.d 16; alloc; dup.d; push.d 0; push 42; astore; push.d 0;
\* aload; ret.w), the routine runs without a fault and the caller's operand
\* stack ends with the single 4-byte 42, read back from the one 16-byte
\* allocation of the heap.
C14_Scenario5 ==
    /\ output = ProgScenario5 => ~Finished
    /\ (output = ProgScenario5 /\ last.cmd = "run_one") =>
          FaultedIn(OpAlloc) /\ last.n = 3
    /\ (output = ProgScenario5Typed /\ last.cmd = "run_one") => Finished
    /\ (output = ProgScenario5Typed /\ Finished) =>
          /\ Top(interp.frames).opstack.idx = 1
          /\ TopWord(interp) = 42
          /\ Len(TheHeap(interp).allocations) = 1
          /\ TheHeap(interp).free = <<>>
          /\ TheHeap(interp).allocations[1] =
                [free |-> FALSE, mem |-> to_le_bytes(42, 4) \o Zeros(12)]

\* the typed heap routine has returned 42 to main
C14_Witness ==
    /\ output = ProgScenario5Typed
    /\ last.cmd = "run_one" /\ Finished
    /\ last.n = 11
    /\ TopWord(interp) = 42

ConditionalJumps == {OpJmpEq, OpJmpNe, OpJmpLt, OpJmpGt, OpJmpLe, OpJmpGe}
WrappingOps == {OpAdd, OpAddB, OpAddD, OpSub, OpSubB, OpSubD, OpMul, OpMulD}
DivOps == {OpDiv, OpDivD}
HeapOps == {OpAlloc, OpFree, OpALoad, OpALoadB, OpALoadD, OpAStore,
            OpAStoreB, OpAStoreD}

\* slots pushed minus slots popped by the instruction of opcode op
Delta(op) ==
    CASE op \in {OpPush, OpPushB, OpLoad, OpLoadB, OpDup} -> 1
      [] op \in {OpPushD, OpLoadD, OpDupD} -> 2
      [] op \in {OpPop, OpPopB, OpStore, OpStoreB, OpAdd, OpAddB, OpSub,
                 OpSubB, OpMul, OpDiv, OpCmp}
                \cup ConditionalJumps -> -1
      [] op \in {OpPopD, OpStoreD, OpAddD, OpSubD, OpMulD, OpDivD, OpFree,
                 OpALoadD} -> -2
      [] op \in {OpCmpD, OpALoad, OpALoadB} -> -3
      [] op \in {OpJmp, OpAlloc} -> 0
      [] op \in {OpAStore, OpAStoreB} -> -5
      [] op = OpAStoreD -> -6

\* the slots the instruction of opcode op reads or pops
Needs(op) ==
    CASE op \in {OpPush, OpPushB, OpPushD, OpLoad, OpLoadB, OpLoadD, OpJmp} -> 0
      [] op \in {OpPop, OpPopB, OpStore, OpStoreB, OpDup}
                \cup ConditionalJumps -> 1
      [] op \in {OpPopD, OpStoreD, OpDupD, OpAdd, OpAddB, OpSub, OpSubB,
                 OpMul, OpDiv, OpCmp, OpAlloc, OpFree} -> 2
      [] op \in {OpAddD, OpSubD, OpMulD, OpDivD, OpCmpD, OpALoad, OpALoadB,
                 OpALoadD} -> 4
      [] op \in {OpAStore, OpAStoreB} -> 5
      [] op = OpAStoreD -> 6

\* the operands of op are on the operand stack os and its result has room
Present(op, os) == os.idx >= Needs(op) /\ os.idx + Delta(op) <= Capacity

C16_IdxInRange ==
    [][/\ ~crashed
       /\ \A i \in 1..Len(interp.frames) :
             /\ interp.frames[i].opstack.idx \in 0..Capacity
             /\ Capacity = 128
       /\ \A i \in 1..Len(interp'.frames) :
             interp'.frames[i].opstack.idx \in 0..Capacity
       /\ (last'.cmd = "unit"
             /\ ~Present(OpcodeAt(last'.arg), Top(interp.frames).opstack)) =>
             /\ crashed' /\ ~last'.ok /\ ~last'.fault
             /\ interp'.frames = interp.frames
      ]_vars

\* push.d on a stack with one free slot has stopped the execution
C16_Witness ==
    /\ last.cmd = "unit" /\ crashed
    /\ OpcodeAt(last.arg) = OpPushD
    /\ Top(interp.frames).opstack.idx = Capacity - 1

CmpOps == {OpCmp, OpCmpD}
BinaryOps == WrappingOps \cup DivOps \cup CmpOps

\* the slots of a value of T bytes
SlotsOf(T) == IF T = 8 THEN 2 ELSE 1

\* the 8-byte v is the sign extension of its low 4 bytes
Fits32(v) ==
    Len(v) < 8 \/ \A i \in 5..8 : v[i] = (IF v[4] >= 128 THEN 255 ELSE 0)

\* the signed integer a little-endian value of 1, 4 or 8 bytes stands for
\* (for 8 bytes: of one that Fits32)
Signed(v) ==
    IF Len(v) = 1 THEN (IF v[1] >= 128 THEN v[1] - 256 ELSE v[1])
    ELSE from_le_i32(SubSeq(v, 1, 4))

\* a value whose sums, differences and products with another such value
\* are exact in every width above one byte
Small(v) == Fits32(v) /\ Signed(v) \in -32768..32767

\* the quotient of the integers a and b # 0, truncated toward zero
Truncated(a, b) ==
    IF (a < 0) = (b < 0)
    THEN (IF a < 0 THEN -a ELSE a) \div (IF b < 0 THEN -b ELSE b)
    ELSE -((IF a < 0 THEN -a ELSE a) \div (IF b < 0 THEN -b ELSE b))

Sign(a, b) == IF a < b THEN -1 ELSE IF a = b THEN 0 ELSE 1

\* what the binary instruction of opcode op makes of the integers a and b
Expected(op, a, b) ==
    CASE op \in {OpAdd, OpAddB, OpAddD} -> a + b
      [] op \in {OpSub, OpSubB, OpSubD} -> a - b
      [] op \in {OpMul, OpMulD} -> a * b
      [] op \in DivOps -> Truncated(a, b)
      [] op \in CmpOps -> Sign(a, b)

\* the operand of T bytes that lies k operands under the top of os
Operand(os, T, k) ==
    Slice(os.stack, (os.idx - (k + 1) * SlotsOf(T)) * SLOT_SIZE, T)

\* the T-byte two's complement bytes of e, zero-extended to whole slots
InSlots(e, T) == to_le_bytes(e, T) \o Zeros(SlotsOf(T) * SLOT_SIZE - T)

\* the width of what the binary instruction of opcode op pushes
ResultWidth(op) == IF op \in CmpOps THEN 4 ELSE Width(op)

\* C17: a binary instruction that completes has popped b (the top) first and
\* a (under it) second and pushed exactly one result over the untouched rest
\* of the stack: a + b, a - b, a * b, a / b truncated toward zero in the width
\* of the operation, and for cmp and cmp.d the 4-byte sign of a - b in
\* {-1, 0, 1} (checked as integers wherever the integer result is exact).
C17_BinaryOperations ==
    [][(last'.cmd = "unit" /\ last'.ok /\ OpcodeAt(last'.arg) \in BinaryOps) =>
         LET op == OpcodeAt(last'.arg)
             T == Width(op)
             os == Top(interp.frames).opstack
             res == Top(interp'.frames).opstack
             b == Operand(os, T, 0)
             a == Operand(os, T, 1)
             below == (os.idx - 2 * SlotsOf(T)) * SLOT_SIZE
         IN  /\ res.idx = os.idx - 2 * SlotsOf(T) + SlotsOf(ResultWidth(op))
             /\ SubSeq(res.stack, 1, below) = SubSeq(os.stack, 1, below)
             /\ (op \in CmpOps /\ Fits32(a) /\ Fits32(b)) =>
                   /\ Operand(res, 4, 0) = to_le_bytes(Sign(Signed(a), Signed(b)), 4)
                   /\ Signed(Operand(res, 4, 0)) \in {-1, 0, 1}
             /\ (Small(a) /\ Small(b)) =>
                   Slice(res.stack, below,
                         SlotsOf(ResultWidth(op)) * SLOT_SIZE)
                     = InSlots(Expected(op, Signed(a), Signed(b)),
                               ResultWidth(op))
      ]_vars

\* div has divided -7 by 2 and left -3
C17_Witness ==
    /\ last.cmd = "unit" /\ last.ok
    /\ OpcodeAt(last.arg) = OpDiv
    /\ Top(interp.frames).opstack.idx = 1
    /\ TopWord(interp) = -3

\* the values of the popped word on which each conditional jump branches
Branches(op) ==
    CASE op = OpJmpEq -> {0}
      [] op = OpJmpNe -> {-1, 1}
      [] op = OpJmpLt -> {-1}
      [] op = OpJmpGt -> {1}
      [] op = OpJmpLe -> {-1, 0}
      [] op = OpJmpGe -> {0, 1}

\* the 8-byte target that follows the opcode at p
Target(p) == from_le_u64(Slice(image, p + 1, 8))

\* the position of the instruction of opcode op in the table
TableStart(op) == CHOOSE p \in output.probes : OpcodeAt(p) = op

\* where the cursor is after cmp on 5 and 10 and then the jump of opcode op
AfterCmp5And10(op) ==
    frame_step([Top(interp.frames) EXCEPT !.opstack =
                   cmp(Pushed(NewOperandStack,
                              <<to_le_bytes(5, 4), to_le_bytes(10, 4)>>),
                       4).os],
               TableStart(op)).pc

\* C18: a conditional jump reads its 8-byte target L, pops exactly one
\* 4-byte value v and sets the cursor to L iff v is in the set of its opcode
\* (jmp.eq {0}, jmp.ne {-1, 1}, jmp.lt {-1}, jmp.gt {1}, jmp.le {-1, 0},
\* jmp.ge {0, 1}), leaving it just after the operand otherwise; jmp always
\* sets the cursor to L and leaves the operand stack as it was; after cmp
\* on 5 and 10, jmp.lt branches and jmp.eq does not.
C18_Jumps ==
    [][(last'.cmd = "unit"
          /\ OpcodeAt(last'.arg) \in ConditionalJumps \cup {OpJmp}) =>
         LET op == OpcodeAt(last'.arg)
             p == last'.arg
             os == Top(interp.frames).opstack
             res == Top(interp'.frames).opstack
         IN  /\ op = OpJmp =>
                   last'.ok /\ interp'.pc = Target(p) /\ res = os
             /\ (op \in ConditionalJumps /\ os.idx >= 1) =>
                   /\ last'.ok
                   /\ res.idx = os.idx - 1 /\ res.stack = os.stack
                   /\ interp'.pc =
                         IF Signed(Operand(os, 4, 0)) \in Branches(op)
                         THEN Target(p) ELSE p + 1 + 8
             /\ Target(p) # p + 1 + 8
             /\ AfterCmp5And10(OpJmpLt) = Target(TableStart(OpJmpLt))
             /\ AfterCmp5And10(OpJmpEq) = TableStart(OpJmpEq) + 1 + 8
      ]_vars

\* jmp.lt has popped -1 and branched
C18_Witness ==
    /\ last.cmd = "unit" /\ last.ok
    /\ OpcodeAt(last.arg) = OpJmpLt
    /\ interp.pc = Target(last.arg)
    /\ Signed(Slice(Top(interp.frames).opstack.stack,
                    Top(interp.frames).opstack.idx * SLOT_SIZE, 4)) = -1

\* the capacity of the allocation the free-list position i of h names
Capacity_at(h, i) == Len(h.allocations[h.free[i] + 1].mem)

\* the free-list positions of h with room for size bytes
Qualifying(h, size) == {i \in 1..Len(h.free) : Capacity_at(h, i) >= size}

\* the free list q is the free list p without its position i
Without(p, q, i) ==
    /\ Len(q) = Len(p) - 1
    /\ \A j \in 1..Len(q) : q[j] = IF j < i THEN p[j] ELSE p[j + 1]

\* alloc(size) took position i of the free list of h, leaving g, and
\* returned ptr
Reused(h, g, i, ptr) ==
    /\ ptr = as_ptr(h.free[i], h.allocations[h.free[i] + 1].mem)
    /\ Without(h.free, g.free, i)
    /\ Len(g.allocations) = Len(h.allocations)
    /\ \A k \in 1..Len(h.allocations) :
          /\ g.allocations[k].mem = h.allocations[k].mem
          /\ g.allocations[k].free =
                IF k = h.free[i] + 1 THEN FALSE ELSE h.allocations[k].free

\* alloc(size) appended an allocation to h, leaving g, and returned ptr
Appended(h, g, size, ptr) ==
    /\ g.free = h.free
    /\ Len(g.allocations) = Len(h.allocations) + 1
    /\ SubSeq(g.allocations, 1, Len(h.allocations)) = h.allocations
    /\ Len(g.allocations[Len(g.allocations)].mem) = size
    /\ \A b \in 1..size : g.allocations[Len(g.allocations)].mem[b] = 0
    /\ ~g.allocations[Len(g.allocations)].free
    /\ ptr = as_ptr(Len(h.allocations), g.allocations[Len(g.allocations)].mem)

\* C19: Heap::alloc(size) returns the allocation named by the first
\* free-list entry, in free-list order, whose capacity is at least size,
\* clearing the free flag of that allocation and removing that one entry of
\* the free list and no other; when no entry has the capacity it appends a
\* new allocation of exactly size zero bytes and returns it, leaving the free
\* list and every existing allocation as they were.
C19_Alloc ==
    [][last'.cmd = "alloc" =>
          IF Qualifying(TheHeap(interp), last'.arg) # {}
          THEN \E i \in Qualifying(TheHeap(interp), last'.arg) :
                  /\ \A j \in Qualifying(TheHeap(interp), last'.arg) : i <= j
                  /\ Reused(TheHeap(interp), TheHeap(interp'), i, last'.pos)
          ELSE Appended(TheHeap(interp), TheHeap(interp'), last'.arg,
                        last'.pos)]_vars

\* an alloc(4) that passed over the first free entry, whose allocation is
\* empty, and took the second, whose allocation still holds the byte written
\* to it before it was freed; the first entry stays on the free list
C19_Witness ==
    /\ driver = "heap"
    /\ last.cmd = "alloc" /\ last.arg = 4
    /\ Len(TheHeap(interp).allocations) = 2
    /\ TheHeap(interp).free = <<0>>
    /\ TheHeap(interp).allocations[1].mem = <<>>
    /\ TheHeap(interp).allocations[1].free
    /\ last.pos = HEAP_BASE + HEAP_STRIDE
    /\ Len(TheHeap(interp).allocations[2].mem) = 16
    /\ TheHeap(interp).allocations[2].mem[1] = 7
    /\ ~TheHeap(interp).allocations[2].free

\* the indices (0-based) of the allocations of h
Existing(h) == 0..(Len(h.allocations) - 1)

\* the handle alloc returned for the allocation at index id of h
Handle(h, id) == as_ptr(id, h.allocations[id + 1].mem)

\* free marked the allocation at index id of h, leaving g, and reclaimed
\* nothing
Freed(h, g, id) ==
    /\ g.allocations[id + 1].free
    /\ g.free = Append(h.free, id)
    /\ Len(g.allocations) = Len(h.allocations)
    /\ \A k \in Existing(h) :
          /\ g.allocations[k + 1].mem = h.allocations[k + 1].mem
          /\ k # id => g.allocations[k + 1].free = h.allocations[k + 1].free

\* C20: Heap::free(h) for the handle h of an existing allocation sets the
\* free flag of that allocation and appends its index to the free list;
\* storage is not reclaimed: the number of allocations, the bytes and the
\* capacity of every allocation, and the flag and the handle of every other
\* allocation are unchanged, and h keeps naming the same allocation for the
\* rest of the run.
C20_Free ==
    [][/\ \A id \in Existing(TheHeap(interp)) :
             /\ id \in Existing(TheHeap(interp'))
             /\ Handle(TheHeap(interp'), id) = Handle(TheHeap(interp), id)
       /\ last'.cmd = "free" =>
             \A id \in Existing(TheHeap(interp)) :
                 Handle(TheHeap(interp), id) = last'.arg =>
                     Freed(TheHeap(interp), TheHeap(interp'), id)]_vars

ALoads == {OpALoad, OpALoadB, OpALoadD}
AStores == {OpAStore, OpAStoreB, OpAStoreD}

\* the 8-byte value k slots under the top of the operand stack os
DWordUnder(os, k) == from_le_u64(Slice(os.stack, (os.idx - k - 2) * SLOT_SIZE, 8))

\* the pointer the instruction of opcode op pops from os: under the offset
\* for an aload, under the value and the offset for an astore
PtrOperand(op, os) == DWordUnder(os, Needs(op) - 2)

\* the offset the instruction of opcode op pops from os
OffsetOperand(op, os) == DWordUnder(os, Needs(op) - 4)

ValueWidth(op) ==
    CASE op \in {OpALoad, OpAStore} -> 4
      [] op \in {OpALoadB, OpAStoreB} -> 1
      [] op \in {OpALoadD, OpAStoreD} -> 8

\* C21: Heap::read and Heap::write given a handle that names no allocation
\* return false and leave the heap unchanged; aload and astore then fail
\* with an error result (a fault of the virtual machine, not a Rust panic)
\* instead of pushing a value or modifying memory.
C21_InvalidHandle ==
    [][(/\ last'.cmd = "unit"
        /\ OpcodeAt(last'.arg) \in ALoads \cup AStores
        /\ Top(interp.frames).opstack.idx >= Needs(OpcodeAt(last'.arg))
        /\ Named(TheHeap(interp),
                 PtrOperand(OpcodeAt(last'.arg), Top(interp.frames).opstack)) = {})
       => LET op == OpcodeAt(last'.arg)
              os == Top(interp.frames).opstack
              rd == heap_read(TheHeap(interp), PtrOperand(op, os),
                              OffsetOperand(op, os), ValueWidth(op))
              wr == heap_write(TheHeap(interp), PtrOperand(op, os),
                               OffsetOperand(op, os),
                               Slice(os.stack, (os.idx - Slots(ValueWidth(op))) * SLOT_SIZE,
                                     ValueWidth(op)))
          IN /\ ~rd.ok /\ ~rd.abort
             /\ ~wr.ok /\ ~wr.abort /\ wr.heap = TheHeap(interp)
             /\ last'.fault /\ ~last'.ok /\ ~crashed'
             /\ TheHeap(interp') = TheHeap(interp)
             /\ Top(interp'.frames).opstack.idx = os.idx - Needs(op)
             /\ Top(interp'.frames).opstack.stack = os.stack
      ]_vars

\* an aload whose pointer operand names no allocation has faulted, its two
\* operands popped and nothing pushed
C21_Witness ==
    /\ last.cmd = "unit" /\ last.fault
    /\ OpcodeAt(last.arg) = OpALoad
    /\ Top(interp.frames).opstack.idx = 0
    /\ DWordUnder([Top(interp.frames).opstack EXCEPT !.idx = 4], 2) = 2
    /\ TheHeap(interp) = UnitHeap

\* the divisor div or div.d pops from os, the top value of its width, is zero
ZeroDivisor(op, os) ==
    IsZero(Slice(os.stack,
                 (os.idx - (IF op = OpDivD THEN 2 ELSE 1)) * SLOT_SIZE,
                 IF op = OpDivD THEN 8 ELSE 4))

\* C22: executing div or div.d with divisor 0 is a runtime fault of the
\* virtual machine: the step returns an error result to its caller and the
\* faulting frame is kept for inspection; it is not a process abort.
C22_DivisionByZeroFaults ==
    [][(/\ last'.cmd = "unit"
        /\ OpcodeAt(last'.arg) \in DivOps
        /\ Top(interp.frames).opstack.idx >= Needs(OpcodeAt(last'.arg))
        /\ ZeroDivisor(OpcodeAt(last'.arg), Top(interp.frames).opstack))
       => /\ ~crashed'
          /\ last'.fault
          /\ Len(interp'.frames) = 1
      ]_vars

\* the programs whose text ends before a return: at an opcode fetch and
\* inside an operand
Truncated_programs == {ProgEof, ProgShortOperand}

\* C23: when an opcode or operand fetch finds fewer bytes left in the image
\* than it needs, Program::next returns an error, run and step return that
\* error to their caller, and the faulting frame is still on the frame stack
\* afterwards for the debugger to inspect.  On a program whose text ends
\* before a return, a command the debugger accepts can only stop short of a
\* breakpoint through such a fetch.
C23_ShortFetchKeepsFrame ==
    /\ [](\A p \in 0..Len(image) : \A N \in {1, 4, 8} :
             p + N > Len(image) => ~next(p, N).ok)
    /\ [][(/\ output \in Truncated_programs
           /\ last'.cmd \in {"run_one", "step", "continue"}
           /\ driver = "debugger" => state = "Running"
           /\ ~last'.ok)
          => /\ last'.fault
             /\ interp'.frames # <<>>
             /\ output = ProgEof /\ last'.cmd # "step" =>
                   Elements(Top(interp'.frames).opstack) = <<to_le_bytes(1, 4)>>
         ]_vars

\* where the label table starts in the serialised form of out
TablePos(out) == 8 + 2 + Len(out.data) + 2 + Len(out.text)

\* the offsets and the names written in the serialised bytes buf of out
WrittenOffsets(out, buf) ==
    des_offsets(buf, TablePos(out) + 2, read_u16(buf, TablePos(out)).val)

WrittenNames(out, buf) ==
    des_labels(buf, WrittenOffsets(out, buf).pos + 2,
               read_u16(buf, WrittenOffsets(out, buf).pos).val)

\* n_offsets = n_labels in buf, and the i-th offset and the i-th name are
\* one entry of the label table of out, every entry being written
TableWritten(out, buf) ==
    LET offsets == WrittenOffsets(out, buf).val
        names == WrittenNames(out, buf).val
    IN  /\ read_u16(buf, TablePos(out)).val
              = read_u16(buf, WrittenOffsets(out, buf).pos).val
        /\ Len(offsets) = Len(names)
        /\ Len(offsets) = Cardinality(DOMAIN out.labels)
        /\ \A i \in 1..Len(offsets) :
              offsets[i] \in DOMAIN out.labels /\ out.labels[offsets[i]] = names[i]
        /\ WrittenNames(out, buf).pos = Len(buf)

\* every length serialise writes fits the 16 bits of its field
FitsU16(out) ==
    /\ Len(out.data) < 65536 /\ Len(out.text) < 65536
    /\ Cardinality(DOMAIN out.labels) < 65536
    /\ \A k \in DOMAIN out.labels : Len(out.labels[k]) < 65536

\* serialise returned, and deserialise gives back the image serialised
RoundTrip ==
    /\ last'.cmd = "serialise" =>
          /\ ~crashed'
          /\ deserialise(image').status = "ok"
          /\ deserialise(image').out = output
          /\ TableWritten(output, image')
    /\ last'.cmd = "deserialise" /\ last'.arg = 0 =>
          last'.ok /\ interp' = output

\* C24 (as claimed): Output::deserialise(Output::serialise(img)) equals img
\* (entry, data, text and the whole label table) for every image, and the
\* serialised form always has n_offsets = n_labels with the i-th offset and
\* the i-th name forming one entry of the label table.
C24_RoundTripEveryImage == [][RoundTrip]_vars

\* C24 (amended): the same for every image whose data length, text length,
\* number of labels and name lengths each fit in 16 bits, whatever the order
\* in which the label table is iterated; for any other image serialise does
\* not return (u16::try_from(..).unwrap() panics).
C24_RoundTrip ==
    [][IF FitsU16(output) THEN RoundTrip
       ELSE last'.cmd = "serialise" => crashed']_vars

\* an image with two labels of different names has been serialised and read
\* back
C24_Witness ==
    /\ driver = "serde"
    /\ last.cmd = "deserialise" /\ last.arg = 0 /\ last.ok
    /\ interp = output
    /\ DOMAIN output.labels = {8, 300}
    /\ output.labels[8] = <<109, 97, 105, 110>>
    /\ output.labels[300] = <<195, 169>>
    /\ output.data # <<>> /\ output.text # <<>>

\* the bytes a statement of a source adds to its section
Emits(s) ==
    CASE s.kind = "label" -> 0
      [] s.kind = "data" ->
            IF Len(s.tokens) > 5 /\ s.tokens[6].t = "string"
            THEN Len(s.tokens[6].b)
            ELSE DataSize(s.tokens[5].s)
      [] s.kind = "ins" -> 1 + Mnemonics[s.tokens[1].s][4]

\* the section a statement belongs to
Section(s) == IF s.kind = "data" THEN "data" ELSE "text"

\* the statements of a source that declare the name
Declarations(src, name) ==
    { i \in 1..Len(src.statements) :
        src.statements[i].kind \in {"label", "data"}
          /\ src.statements[i].name = name }

\* the bytes of a section before statement i of a source
RECURSIVE SectionBefore(_, _, _)
SectionBefore(src, section, i) ==
    IF i <= 1 THEN 0
    ELSE SectionBefore(src, section, i - 1)
           + (IF Section(src.statements[i - 1]) = section
              THEN Emits(src.statements[i - 1]) ELSE 0)

\* absolute(label) for the declaration at statement i
absolute(src, i) ==
    HEADER_SIZE + SectionBefore(src, Section(src.statements[i]), i)
      + (IF Section(src.statements[i]) = "text"
         THEN SectionBefore(src, "data", Len(src.statements) + 1) ELSE 0)

\* no name of the source is declared twice
DeclaredOnce(src) ==
    \A i, j \in 1..Len(src.statements) :
        (i \in Declarations(src, src.statements[j].name)
           /\ j \in Declarations(src, src.statements[j].name)) => i = j

\* every .data directive of the source precedes every instruction and
\* instruction label
DataFirst(src) ==
    \A i, j \in 1..Len(src.statements) :
        (src.statements[i].kind = "data" /\ src.statements[j].kind # "data")
          => i < j

\* C25: in the image of every source that assembles (and declares no name
\* twice), the entry header and every label operand hold, as 8
\* little-endian bytes, 8 + the label's offset within its section + the
\* length of the data section if the label is in text, wherever the .data
\* directives stand among the instructions.
C25_LabelAddresses ==
    (driver = "asm" /\ last.cmd = "assemble" /\ last.ok
       /\ DeclaredOnce(output))
      => \A p \in DOMAIN interp.unresolved :
           \A i \in Declarations(output, interp.unresolved[p]) :
               SubSeq(image, p + 1, p + 8)
                 = to_le_bytes(absolute(output, i), 8)

\* C26: a source that declares the same name twice, as two instruction
\* labels, two .data names or one of each, never assembles.
C26_DuplicateFatal ==
    (driver = "asm" /\ last.cmd = "assemble" /\ ~DeclaredOnce(output))
      => ~last.ok /\ image = <<>>

\* the label names a source refers to: the .entry header and the label
\* operands of its instructions
Referenced(src) ==
    {src.entry}
      \cup { src.statements[i].ref : i \in { j \in 1..Len(src.statements) :
                                               src.statements[j].ref # "" } }

\* a label the source refers to and declares nowhere
Undeclared(src) ==
    { name \in Referenced(src) : Declarations(src, name) = {} }

\* C27: a source that refers to a label it never declares, in an operand or
\* in the .entry header, does not assemble and gives no image; and in every
\* image that is produced each recorded reference holds the offset of a
\* declared label.
C27_UnresolvedFatal ==
    (driver = "asm" /\ last.cmd = "assemble")
      => /\ Undeclared(output) # {} => ~last.ok /\ ~crashed /\ image = <<>>
         /\ last.ok =>
              \A p \in DOMAIN interp.unresolved :
                  /\ interp.unresolved[p] \in DOMAIN interp.labels
                  /\ Declarations(output, interp.unresolved[p]) # {}
                  /\ SubSeq(image, p + 1, p + 8)
                       = to_le_bytes(interp.labels[interp.unresolved[p]], 8)

\* a source whose only fault is the undeclared label of a jump: every token
\* is read, and the assembly fails when the operands are resolved
C27_Witness ==
    /\ driver = "asm" /\ last.cmd = "assemble"
    /\ Undeclared(output) = {"loop"}
    /\ last.pos = Len(lines)
    /\ last.fault /\ image = <<>>

\* C28: for every source that assembles, the disassembly of the image
\* assembles again, to the same bytes.
C28_DisassemblyReassembles ==
    (driver = "asm" /\ last.cmd = "reassemble")
      => last.ok /\ ~crashed /\ interp.program = image

\* heap h2 is heap h but for the bytes [offset, offset + n) of the
\* allocation at index id
SameBut(h, h2, id, offset, n) ==
    /\ h2.free = h.free
    /\ Len(h2.allocations) = Len(h.allocations)
    /\ \A j \in 1..Len(h.allocations) :
          /\ h2.allocations[j].free = h.allocations[j].free
          /\ Len(h2.allocations[j].mem) = Len(h.allocations[j].mem)
          /\ \A k \in 1..Len(h.allocations[j].mem) :
                (j # id + 1 \/ k \notin (offset + 1)..(offset + n))
                  => h2.allocations[j].mem[k] = h.allocations[j].mem[k]

\* the top value of T bytes of the operand stack os
TopValue(os, T) == Slice(os.stack, (os.idx - Slots(T)) * SLOT_SIZE, T)

\* C30: a Heap::write that returns true changes no byte of the heap but
\* those of [offset, offset + |src|) in the allocation of the handle; the
\* Heap::read after it, with the same handle and offset and a dst as long
\* as src, returns true with dst = src; and an aload T after an astore T
\* at the same pointer and offset pushes the value stored.
C30_WriteThenRead ==
    [][/\ (last'.cmd = "write" /\ last'.ok)
            => /\ Named(TheHeap(interp), lines.ptr) # {}
               /\ SameBut(TheHeap(interp), TheHeap(interp'),
                          Least(Named(TheHeap(interp), lines.ptr)),
                          lines.offset, Len(lines.src))
       /\ (last.cmd = "write" /\ last.ok /\ last'.cmd = "read")
            => /\ last'.ok /\ ~crashed'
               /\ interp'.dst = lines.src
               /\ TheHeap(interp') = TheHeap(interp)
       /\ (last'.cmd = "astore" /\ last'.ok)
            => /\ Top(interp'.frames).opstack.idx = 0
               /\ SameBut(TheHeap(interp), TheHeap(interp'),
                          Least(Named(TheHeap(interp), lines.ptr)),
                          lines.offset, Len(lines.src))
       /\ (last.cmd = "astore" /\ last.ok /\ last'.cmd = "aload")
            => /\ last'.ok /\ ~crashed'
               /\ Top(interp'.frames).opstack.idx = Slots(Len(lines.src))
               /\ TopValue(Top(interp'.frames).opstack, Len(lines.src))
                    = lines.src
               /\ TheHeap(interp') = TheHeap(interp)
      ]_vars

\* the four bytes 201..204 were stored at offset 0 of the second of two
\* written allocations, over 21..24, and the aload after the astore has
\* pushed them; the first allocation is as it was
C30_Witness ==
    /\ driver = "rw" /\ last.cmd = "aload" /\ last.ok
    /\ lines.ptr = HEAP_BASE + HEAP_STRIDE /\ lines.offset = 0
    /\ TopValue(Top(interp.frames).opstack, 4) = <<201, 202, 203, 204>>
    /\ TheHeap(interp).allocations[1].mem = [i \in 1..16 |-> 100 + i]
    /\ TheHeap(interp).allocations[2].mem = <<201, 202, 203, 204>>

\* One call made alone on heap s.heap with mutexes poisoned as s.poisoned
\* says: the heap and the mutexes after it, and what it returns
Alone(s, call) ==
    IF s.poisoned.allocations
         \/ (call.name \in {"alloc", "free"} /\ s.poisoned.free)
    THEN [heap |-> s.heap,
          poisoned |-> [allocations |-> TRUE, free |-> s.poisoned.free],
          ret |-> Returned(TRUE, 0, FALSE, <<>>)]
    ELSE CASE call.name = "alloc" ->
                [heap |-> heap_alloc(s.heap, call.size).heap,
                 poisoned |-> s.poisoned,
                 ret |-> Returned(FALSE, heap_alloc(s.heap, call.size).ptr,
                                  FALSE, <<>>)]
           [] call.name = "free" ->
                IF heap_free(s.heap, call.ptr).abort
                THEN [heap |-> s.heap,
                      poisoned |-> [allocations |-> TRUE, free |-> TRUE],
                      ret |-> Returned(TRUE, 0, FALSE, <<>>)]
                ELSE [heap |-> heap_free(s.heap, call.ptr).heap,
                      poisoned |-> s.poisoned,
                      ret |-> Returned(FALSE, 0, FALSE, <<>>)]
           [] call.name = "read" ->
                LET r == heap_read(s.heap, call.ptr, call.offset, call.size)
                IN  [heap |-> s.heap,
                     poisoned |-> [s.poisoned EXCEPT !.allocations = r.abort],
                     ret |-> Returned(r.abort, 0, r.ok,
                                      IF r.abort THEN <<>> ELSE r.val)]
           [] call.name = "write" ->
                LET w == heap_write(s.heap, call.ptr, call.offset, call.src)
                IN  [heap |-> w.heap,
                     poisoned |-> [s.poisoned EXCEPT !.allocations = w.abort],
                     ret |-> Returned(w.abort, 0, w.ok,
                                      IF w.abort THEN <<>>
                                      ELSE Zeros(call.size))]

\* the calls of threads a then b, one after the other under one lock, leave
\* the heap and return what the threads of ip did
AsIfInTurn(ip, a, b) ==
    LET first == Alone([heap |-> ip.init,
                        poisoned |-> [allocations |-> FALSE, free |-> FALSE]],
                       ip.threads[a].call)
        second == Alone(first, ip.threads[b].call)
    IN  /\ b \notin ip.threads[a].before
        /\ first.ret = ip.threads[a].ret
        /\ second.ret = ip.threads[b].ret
        /\ second.heap = ip.heap
        /\ second.poisoned = ip.poisoned

\* thread t can take a step
CanStep(ip, t) ==
    /\ ~HasReturned(ip.threads[t])
    /\ ip.threads[t].at = "lock"
         => ip.held[LockOrder(ip.threads[t].call.name)[ip.threads[t].k]] = 0

\* thread t is between the first lock() and the return of its call
InCall(th) == th.at \in {"scan", "apply", "free", "find", "copy"}

\* C29: with threads sharing one Heap every call takes effect as if under a
\* single lock: no two calls are in their bodies together; while a thread
\* has not returned some thread can step (no deadlock); when all have
\* returned, heap and results are those of the calls made one after
\* another in some order that keeps a call after every call that had
\* returned before it began; two allocs return different allocations; and a
\* read that returns true holds the bytes as they were before or after the
\* other thread's whole call, never part of a write.
C29_AsUnderOneLock ==
    driver = "threads" =>
      /\ \A t, u \in Threads :
            (InCall(interp.threads[t]) /\ InCall(interp.threads[u])) => t = u
      /\ (\E t \in Threads : ~HasReturned(interp.threads[t]))
            => \E t \in Threads : CanStep(interp, t)
      /\ (\A t \in Threads : HasReturned(interp.threads[t]))
            => AsIfInTurn(interp, 1, 2) \/ AsIfInTurn(interp, 2, 1)
      /\ \A t, u \in Threads :
            (/\ t # u
             /\ interp.threads[t].call.name = "alloc"
             /\ interp.threads[u].call.name = "alloc"
             /\ interp.threads[t].at \in {"unlock", "done"}
             /\ interp.threads[u].at \in {"unlock", "done"})
              => interp.threads[t].found # interp.threads[u].found
      /\ \A t, u \in Threads :
            (/\ t # u
             /\ interp.threads[t].call.name = "read"
             /\ interp.threads[t].ret.ok)
              => interp.threads[t].ret.dst
                   \in { heap_read(interp.init, interp.threads[t].call.ptr,
                                   interp.threads[t].call.offset,
                                   interp.threads[t].call.size).val,
                         heap_read(Alone([heap |-> interp.init,
                                          poisoned |->
                                              [allocations |-> FALSE,
                                               free |-> FALSE]],
                                         interp.threads[u].call).heap,
                                   interp.threads[t].call.ptr,
                                   interp.threads[t].call.offset,
                                   interp.threads[t].call.size).val }

\* a write and a read of the same two bytes, neither returned before the
\* other was called: both have returned and the read has both bytes of the
\* write
C29_Witness ==
    /\ driver = "threads"
    /\ \A t \in Threads : interp.threads[t].at = "done"
                            /\ interp.threads[t].before = {}
    /\ interp.threads[1].call = Call("write", 2, HEAP_BASE, 0, <<7, 9>>)
    /\ interp.threads[2].call = Call("read", 2, HEAP_BASE, 0, <<>>)
    /\ interp.threads[2].ret.dst = <<7, 9>>
    /\ interp.init = RwTwo

\* slot i (from 0) of an operand stack
SlotAt(os, i) == Slice(os.stack, i * SLOT_SIZE, SLOT_SIZE)

\* C31: a push of one byte takes one slot and leaves the byte followed by
\* three zero bytes in it, whatever the slot held, so that a 4-byte pop
\* returns the byte zero-extended; a push of 4 bytes takes one slot and a
\* push of 8 bytes two consecutive slots, low half first; every push leaves
\* the slots below untouched; and a pop of 8 bytes returns the two top
\* slots, the lower one as the low half (x pushed before y gives
\* x + y * 2^32).
C31_SlotRepresentation ==
    [][/\ (last'.cmd = "push" /\ ~crashed') =>
             /\ interp'.os.idx = interp.os.idx + (IF last'.arg = 8 THEN 2 ELSE 1)
             /\ as_slice(interp.os) =
                   Slice(interp'.os.stack, 0, interp.os.idx * SLOT_SIZE)
             /\ last'.arg = 1 =>
                   /\ SubSeq(SlotAt(interp'.os, interp.os.idx), 2, 4) = <<0, 0, 0>>
                   /\ SlotAt(interp'.os, interp.os.idx)[1] \in 0..255
                   /\ pop(interp'.os, 4).val = peek(interp'.os, 1).val \o <<0, 0, 0>>
                   /\ from_le_i32(pop(interp'.os, 4).val) = peek(interp'.os, 1).val[1]
             /\ last'.arg = 8 =>
                   pop(interp'.os, 8).val =
                      SlotAt(interp'.os, interp.os.idx)
                         \o SlotAt(interp'.os, interp.os.idx + 1)
             /\ pop(interp'.os, last'.arg).val \in StackValues
       /\ (last'.cmd = "pop" /\ last'.arg = 8 /\ ~crashed') =>
             /\ interp'.os.idx = interp.os.idx - 2
             /\ interp'.ret = SlotAt(interp.os, interp.os.idx - 2)
                                 \o SlotAt(interp.os, interp.os.idx - 1)
             /\ from_le_i32(SubSeq(interp'.ret, 1, 4)) =
                   from_le_i32(pop(pop(interp.os, 4).os, 4).val)
             /\ from_le_i32(SubSeq(interp'.ret, 5, 8)) =
                   from_le_i32(pop(interp.os, 4).val)
       /\ (last'.cmd = "pop" /\ last'.arg = 4 /\ ~crashed'
             /\ last.cmd = "push" /\ last.arg = 1) =>
             /\ interp'.ret[1] = 200 /\ SubSeq(interp'.ret, 2, 4) = <<0, 0, 0>>
      ]_vars

\* test_stack: push 0x40000000; dup; pop.d on a new stack has returned
\* 0x4000000040000000
C31_Witness ==
    /\ driver = "stack" /\ last.cmd = "pop" /\ last.arg = 8 /\ last.n = 3
    /\ interp.ret = <<0, 0, 0, 64, 0, 0, 0, 64>>
    /\ interp.os = [NewOperandStack EXCEPT
                       !.stack = CopyInto(@, 0, <<0, 0, 0, 64, 0, 0, 0, 64>>)]

\* C32: peek::<T> never changes the stack and never fails: it returns None
\* when the stack holds fewer slots than an element of T takes (one slot
\* for 1 and 4 bytes, two for 8) and the top element of that width
\* otherwise.
C32_PeekIsPure ==
    [][last'.cmd = "peek" =>
         /\ interp'.os = interp.os
         /\ ~crashed'
         /\ IF interp.os.idx < Slots(last'.arg)
            THEN ~last'.ok /\ interp'.ret = <<>>
            ELSE /\ last'.ok
                 /\ interp'.ret = Slice(interp.os.stack,
                                        (interp.os.idx - Slots(last'.arg))
                                           * SLOT_SIZE, last'.arg)
      ]_vars

\* C40: rendering an operand stack succeeds for every idx in 0 .. 128 and
\* shows at most 8 slots, those up to the cursor being the top elements of
\* the stack (the window ends at the top), with the cursor after
\* min(idx, 8) columns of 9 characters and labelled with idx.
C40_RenderingWindow ==
    [][last'.cmd = "fmt" =>
         /\ interp.os.idx \in 0..Capacity
         /\ ~crashed' /\ last'.ok
         /\ interp'.os = interp.os
         /\ Len(interp'.ret.slots) <= 8
         /\ interp'.ret.idx = interp.os.idx
         /\ interp'.ret.cursor = 9 * Min(interp.os.idx, 8)
         /\ \A k \in 1..Min(interp.os.idx, 8) :
               interp'.ret.slots[k] =
                  from_le_i32(SlotAt(interp.os,
                                     interp.os.idx - Min(interp.os.idx, 8) + k - 1))
      ]_vars

\* the exact result of the arithmetic instruction of opcode op on a and b
\* reduced modulo 2^w in two's complement (MIN / -1 wraps to MIN)
Wrapped(op, a, b) ==
    CASE op \in {OpAdd, OpAddB, OpAddD} -> WrappingAdd(a, b)
      [] op \in {OpSub, OpSubB, OpSubD} -> WrappingSub(a, b)
      [] op \in {OpMul, OpMulD} -> WrappingMul(a, b)
      [] op \in DivOps -> IF IsMin(a) /\ IsMinusOne(b) THEN a
                          ELSE TruncatingDiv(a, b)

\* C39: add, sub, mul and div of every width, on any two operands with a
\* nonzero divisor, complete without stopping the machine and push the exact
\* result reduced modulo 2^w (MAX + 1, MIN - 1, MAX * 2 and MIN / -1 push a
\* wrapped value).
C39_ArithmeticWraps ==
    [][(/\ last'.cmd = "unit"
        /\ OpcodeAt(last'.arg) \in WrappingOps \cup DivOps
        /\ Present(OpcodeAt(last'.arg), Top(interp.frames).opstack)
        /\ ~(OpcodeAt(last'.arg) \in DivOps
               /\ ZeroDivisor(OpcodeAt(last'.arg), Top(interp.frames).opstack)))
       => /\ ~crashed' /\ last'.ok
          /\ Operand(Top(interp'.frames).opstack, Width(OpcodeAt(last'.arg)), 0)
               = Wrapped(OpcodeAt(last'.arg),
                         Operand(Top(interp.frames).opstack,
                                 Width(OpcodeAt(last'.arg)), 1),
                         Operand(Top(interp.frames).opstack,
                                 Width(OpcodeAt(last'.arg)), 0))
      ]_vars

\* the capacity of the allocation of h that ptr names
CapacityOf(h, ptr) == Len(h.allocations[Least(Named(h, ptr)) + 1].mem)

\* C38: an aload or astore whose pointer names an allocation and whose
\* offset + length exceeds the capacity of that allocation touches no byte
\* outside it and is a failed access, Heap::read / Heap::write returning
\* false: the step gives an error result, the heap is unchanged and the
\* machine does not abort.
C38_OutOfRangeFaults ==
    [][(/\ last'.cmd = "unit"
        /\ OpcodeAt(last'.arg) \in ALoads \cup AStores
        /\ Top(interp.frames).opstack.idx >= Needs(OpcodeAt(last'.arg))
        /\ Named(TheHeap(interp),
                 PtrOperand(OpcodeAt(last'.arg), Top(interp.frames).opstack)) # {}
        /\ OffsetOperand(OpcodeAt(last'.arg), Top(interp.frames).opstack)
             > CapacityOf(TheHeap(interp),
                          PtrOperand(OpcodeAt(last'.arg),
                                     Top(interp.frames).opstack))
                  - ValueWidth(OpcodeAt(last'.arg)))
       => /\ ~crashed'
          /\ last'.fault /\ ~last'.ok
          /\ TheHeap(interp') = TheHeap(interp)
      ]_vars

\* the handles of h held by a live allocation: returned by an alloc and not
\* freed since
Live(h) == {Handle(h, id) : id \in {k \in Existing(h) : ~h.allocations[k + 1].free}}

\* C36: after any sequence of alloc and free calls, repeated frees of one
\* handle and allocations of size 0 included, alloc never returns a handle
\* that a live allocation holds (one an earlier alloc returned and no free
\* has released since).
C36_NoSharedHandle ==
    [][last'.cmd = "alloc" => last'.pos \notin Live(TheHeap(interp))]_vars

\* C37: after any sequence of alloc and free calls the free list holds
\* exactly the indices of the allocations whose free flag is set, each at
\* most once, and every index in it is the index of an existing allocation.
C37_FreeListInvariant ==
    driver = "heap" =>
       /\ \A i \in 1..Len(TheHeap(interp).free) :
             TheHeap(interp).free[i] \in Existing(TheHeap(interp))
       /\ \A i, j \in 1..Len(TheHeap(interp).free) :
             TheHeap(interp).free[i] = TheHeap(interp).free[j] => i = j
       /\ {TheHeap(interp).free[i] : i \in 1..Len(TheHeap(interp).free)}
             = {id \in Existing(TheHeap(interp)) :
                   TheHeap(interp).allocations[id + 1].free}

\* the 8-byte operand of the instruction at position p of the image
OperandAt(p) == from_le_u64(Slice(image, p + 1, 8))

\* offset off names a byte of the data section of the image
InData(off) == off >= HEADER_SIZE /\ off < HEADER_SIZE + Len(output.data)

\* C35: `dataptr off`, off naming a data byte, pushes one 8-byte value, the
\* code-space address off of that byte (an offset into header, data and
\* text), and changes nothing else but the cursor; used as the ptr of a
\* following get with offset 0, the pushed value reads the bytes of the
\* image at off.
C35_DataPtr ==
    [][last'.cmd = "data" =>
         /\ (OpcodeAt(last'.arg) = OpDataPtr /\ InData(OperandAt(last'.arg))) =>
               /\ ~crashed' /\ last'.ok
               /\ interp'.pc = last'.arg + 9
               /\ Top(interp'.frames).opstack.idx =
                     Top(interp.frames).opstack.idx + 2
               /\ pop(Top(interp'.frames).opstack, 8).val =
                     to_le_bytes(OperandAt(last'.arg), 8)
               /\ as_slice(pop(Top(interp'.frames).opstack, 8).os) =
                     as_slice(Top(interp.frames).opstack)
               /\ Top(interp'.frames).locals = Top(interp.frames).locals
               /\ TheHeap(interp') = TheHeap(interp)
         /\ (/\ OpcodeAt(last'.arg) \in {OpGet, OpGetB, OpGetD}
             /\ Len(interp.trace) = 2
             /\ OpcodeAt(interp.trace[1]) = OpDataPtr
             /\ InData(OperandAt(interp.trace[1]))
             /\ OperandAt(interp.trace[1]) + Width(OpcodeAt(last'.arg))
                   <= HEADER_SIZE + Len(output.data)
             /\ OpcodeAt(interp.trace[2]) = OpPushD
             /\ OperandAt(interp.trace[2]) = 0) =>
               /\ ~crashed' /\ last'.ok
               /\ pop(Top(interp'.frames).opstack,
                      Width(OpcodeAt(last'.arg))).val =
                     Slice(image, OperandAt(interp.trace[1]),
                           Width(OpcodeAt(last'.arg)))
      ]_vars

\* the kind of frame result the opcode op gives
ResultKind(op) ==
    CASE op = OpRet -> "ret" [] op = OpRetW -> "retw" [] op = OpRetD -> "retd"
      [] op = OpPanic -> "panic"

\* C33: the Ret, RetW, RetD or Panic result Frame::step gives carries the
\* position of its own opcode, the cursor before the fetch; and when main
\* has returned, by a step, a continue or a run, the position the
\* interpreter reports is the position of that return opcode, not the one
\* after it.
C33_ReturnPosition ==
    [][/\ (~crashed /\ interp.frames # <<>>
             /\ OpcodeAt(interp.pc) \in Returns \cup {OpPanic}) =>
             /\ frame_step(Top(interp.frames), interp.pc).kind =
                   ResultKind(OpcodeAt(interp.pc))
             /\ frame_step(Top(interp.frames), interp.pc).pos = interp.pc
       /\ (last'.cmd \in {"step", "continue", "run_one"} /\ last'.finished) =>
             /\ OpcodeAt(position(interp')) \in Returns
             /\ last'.cmd = "step" => position(interp') = position(interp)
      ]_vars

\* uninterrupted execution from ip: Interpreter::run, which continue calls
\* when no breakpoint lies ahead
Uninterrupted(ip) == interpreter_run(ip, 0, MaxSteps)

\* C34: a step of the debugger that does not fault executes exactly one
\* instruction, that of the topmost frame (a step that faults fetches at
\* most one opcode); a step that does not end the program leaves a state
\* from which uninterrupted execution (run, or continue with no breakpoint)
\* completes exactly as it does from the state before the step; and the
\* step on which main returns leaves the frame stack, with every operand
\* stack, the locals and the heap, that uninterrupted execution reaches,
\* from the state before it and, for a program that uninterrupted
\* execution completes, from the start of the program alike.
C34_StepRefinesRun ==
    [][(last'.cmd = "step" /\ state = "Running") =>
         /\ last'.n <= 1
         /\ (last'.ok \/ last'.finished) =>
               /\ last'.n = 1
               /\ frame_step(Top(interp.frames), position(interp)).frame
                  \in {interp'.frames[i] : i \in 1..Len(interp'.frames)}
                        \cup {interp.frames[Len(interp.frames)]}
         /\ last'.ok =>
               /\ Uninterrupted(interp').status = Uninterrupted(interp).status
               /\ Uninterrupted(interp).status = "ok" =>
                     Uninterrupted(interp').ip.frames = Uninterrupted(interp).ip.frames
         /\ last'.finished =>
               /\ Uninterrupted(interp).status = "ok"
               /\ interp'.frames = Uninterrupted(interp).ip.frames
               /\ Uninterrupted(reset(interp)).status = "ok" =>
                     interp'.frames = Uninterrupted(reset(interp)).ip.frames
      ]_vars

\* the last of the steps that drove ProgCall to its end: main has returned
\* with the sum its callee handed back stored in local 0
C34_Witness ==
    /\ output = ProgCall /\ driver = "debugger"
    /\ last.cmd = "step" /\ last.finished /\ state = "Off"
    /\ Len(interp.frames) = 1
    /\ LocalWord(interp, 0) = 55

====
